---- MODULE Spec2Model ----
(***************************************************************************)
(* Hand Grid Controller (src/env-2) and the gesture recognizers of the     *)
(* repository, as a state machine.                                         *)
(*                                                                         *)
(* One tick of HandGridController.animate is the chain                     *)
(*   DetectHands -> ProcessHand (once per reported hand, slot 0 first)     *)
(*               -> FollowHeld -> idle,                                    *)
(* sequenced by pc, so that the state between two iterations of            *)
(* hands.forEach is a state of the model.  The detector's output does not  *)
(* depend on the program's state: DetectHands fixes how many hands it      *)
(* reports and the record of a hand enters `hands` when forEach reads it.  *)
(*                                                                         *)
(* Coordinates are hundredths of the normalized unit, angles are degrees.  *)
(* style.left/top of a held element (updateHeldObjectPosition) is output   *)
(* to the renderer only and is not part of the state.                      *)
(***************************************************************************)
EXTENDS Integers, Sequences, FiniteSets, TLC

VARIABLES
    cellObjects,     \* main.js:31   cell index -> array of elements (keys exist only while non-empty)
    heldObjects,     \* main.js:33   hand index -> { element, fromCellIndex, grabAngle, grabNormalZ, grabWasBack, isBack }
    flipped,         \* element -> its .grid-object-inner carries class 'flipped'
    gestureHistory,  \* gestures: Map hand index -> last raw types
    prevGestures,    \* gestures: Map hand index -> last raw gesture
    pc,              \* where animate() stands: "idle", "hands", "follow"
    handCount,       \* hands.length of the tick in progress
    hands,           \* the hands forEach has read so far in this tick
    gesture,         \* hand index -> type returned by the latest recognize() of processHands
    moves,           \* history variable: what forEach did for each hand read so far in this tick (element 0: none)
    calls,           \* history variable: hand index -> raw types of the latest recognize() calls
    rawLog,          \* history variable: hand index -> raw types of the latest consecutive ticks
    grabSnap,        \* history variable: hand index -> cell store and owners just before its grab
    probe,           \* a function under test: its name, its input, and its result once applied
    swarm,           \* the MagicParticleField: state, targetCenter, velocity, positions, targets
    swarmTrace,      \* history variable: the latest call on the field and the calls so far
    tracker,         \* the HandTracker: prevLandmarks, lastResult, and the frames detected so far
    scene,           \* the 3D scene: pinch state of each hand, the cube and who grabbed it
    protocol,        \* the protocol tracker: step index, state, and the drops judged so far
    startup          \* the start button: the start() calls in flight, the tick loops, what was created

vars == <<cellObjects, heldObjects, flipped, gestureHistory, prevGestures,
          pc, handCount, hands, gesture, moves, calls, rawLog, grabSnap, probe,
          swarm, swarmTrace, tracker, scene, protocol, startup>>

-----------------------------------------------------------------------------
(* Values *)

Null == <<>>
Some(v) == <<v>>
Val(o) == o[1]

Put(f, k, v) == [x \in (DOMAIN f) \cup {k} |-> IF x = k THEN v ELSE f[x]]
Del(f, k) == [x \in (DOMAIN f) \ {k} |-> f[x]]
Front(s) == SubSeq(s, 1, Len(s) - 1)
Last(s) == s[Len(s)]
LastN(s, n) == IF Len(s) > n THEN SubSeq(s, Len(s) - n + 1, Len(s)) ELSE s

numHands == 2
gridCols == 3
gridRows == 3
historySize == 3
LANDMARK_COUNT == 21

HandSlots == 0 .. (numHands - 1)
InitialCells == <<0, 4>>
Elements == DOMAIN InitialCells
NoGesture == "undefined"

-----------------------------------------------------------------------------
(* GestureRecognizer *)

\* getFingerStates: the five extension tests and their count.
getFingerStates(hand) ==
    [thumb |-> hand.fingers[1], index |-> hand.fingers[2], middle |-> hand.fingers[3],
     ring |-> hand.fingers[4], pinky |-> hand.fingers[5],
     extendedCount |-> Cardinality({i \in 1 .. 5 : hand.fingers[i]})]

\* classifyGesture of the grid recognizer.
gridClassifyGesture(fingerStates) ==
    IF fingerStates.extendedCount <= 1 THEN [type |-> "FIST", confidence |-> 90]
    ELSE IF fingerStates.extendedCount >= 4 THEN [type |-> "OPEN", confidence |-> 90]
    ELSE [type |-> "NONE", confidence |-> 50]

Count(h, t) == Cardinality({i \in DOMAIN h : h[i] = t})

\* The loop over Object.entries(counts): keys in order of first occurrence,
\* a key replaces the running maximum only with a strictly larger count.
RECURSIVE modeScan(_, _, _, _)
modeScan(h, i, maxCount, stableType) ==
    IF i > Len(h) THEN [maxCount |-> maxCount, stableType |-> stableType]
    ELSE IF \E j \in 1 .. (i - 1) : h[j] = h[i] THEN modeScan(h, i + 1, maxCount, stableType)
    ELSE IF Count(h, h[i]) > maxCount THEN modeScan(h, i + 1, Count(h, h[i]), h[i])
    ELSE modeScan(h, i + 1, maxCount, stableType)

\* Variant of pushHistory that discards the newest entry instead of the oldest.
pushHistoryPop(history, type) ==
    LET pushed == Append(history, type)
    IN IF Len(pushed) > historySize THEN Front(pushed) ELSE pushed

pushHistory(history, type) ==
    LET pushed == Append(history, type)
    IN IF Len(pushed) > historySize THEN Tail(pushed) ELSE pushed

\* Variant of majority that asks for a unanimous history.
majorityAll == historySize

majority == (historySize + 1) \div 2

\* applyHysteresis(gesture, handIndex) on the recognizer state R = [history, prev].
applyHysteresis(R, g, handIndex) ==
    LET old == IF handIndex \in DOMAIN R.history THEN R.history[handIndex] ELSE <<>>
        history == pushHistory(old, g.type)
        m == modeScan(history, 1, 0, g.type)
    IN [history |-> Put(R.history, handIndex, history),
        prev |-> Put(R.prev, handIndex, g),
        gesture |-> IF m.maxCount >= majority THEN [g EXCEPT !.type = m.stableType] ELSE g]

\* Variant of the grid's recognize that records the NONE of a malformed hand
\* in the slot's history and last-gesture record.
gridRecognizeRecordingNone(R, hand, handIndex) ==
    LET raw == IF hand.count < LANDMARK_COUNT THEN [type |-> "NONE", confidence |-> 0]
               ELSE gridClassifyGesture(getFingerStates(hand))
        r == applyHysteresis(R, raw, handIndex)
    IN [history |-> r.history, prev |-> r.prev,
        gesture |-> IF hand.count < LANDMARK_COUNT THEN raw ELSE r.gesture,
        palmCenter |-> IF hand.count < LANDMARK_COUNT THEN <<50, 50>> ELSE hand.palm]

\* recognize(landmarks, handIndex) of the grid recognizer.
gridRecognize(R, hand, handIndex) ==
    IF hand.count < LANDMARK_COUNT
    THEN [history |-> R.history, prev |-> R.prev,
          gesture |-> [type |-> "NONE", confidence |-> 0], palmCenter |-> <<50, 50>>]
    ELSE LET r == applyHysteresis(R, gridClassifyGesture(getFingerStates(hand)), handIndex)
         IN [history |-> r.history, prev |-> r.prev, gesture |-> r.gesture,
             palmCenter |-> hand.palm]

\* classifyGesture of the Hand Magic Studio recognizer (pinch start/end hysteresis
\* on the previous raw gesture of the slot).
pinchStartThreshold == 6
pinchEndThreshold == 10

\* Variant of classifyGesture that tests the pinch before the fist.
classifyGesturePinchFirst(R, fingerStates, pinchDistance, handIndex) ==
    LET wasPinching == handIndex \in DOMAIN R.prev /\ R.prev[handIndex].type = "PINCH"
        isPinching == IF wasPinching THEN pinchDistance < pinchEndThreshold
                      ELSE pinchDistance < pinchStartThreshold
    IN IF isPinching THEN [type |-> "PINCH", confidence |-> 90]
       ELSE IF fingerStates.extendedCount <= 1 THEN [type |-> "FIST", confidence |-> 90]
       ELSE IF fingerStates.extendedCount >= 4 THEN [type |-> "OPEN", confidence |-> 90]
       ELSE [type |-> "NONE", confidence |-> 50]

classifyGesture(R, fingerStates, pinchDistance, handIndex) ==
    LET wasPinching == handIndex \in DOMAIN R.prev /\ R.prev[handIndex].type = "PINCH"
        isPinching == IF wasPinching THEN pinchDistance < pinchEndThreshold
                      ELSE pinchDistance < pinchStartThreshold
        f == fingerStates
    IN IF f.extendedCount <= 1 THEN [type |-> "FIST", confidence |-> 90]
       ELSE IF isPinching THEN [type |-> "PINCH", confidence |-> 90]
       ELSE IF f.extendedCount >= 4 THEN [type |-> "OPEN", confidence |-> 90]
       ELSE IF f.index /\ f.middle /\ ~f.ring /\ ~f.pinky
            THEN [type |-> "PEACE", confidence |-> 85]
       ELSE IF f.thumb /\ ~f.index /\ ~f.middle /\ ~f.ring /\ ~f.pinky
            THEN [type |-> "THUMBS_UP", confidence |-> 80]
       ELSE IF ~f.thumb /\ f.index /\ ~f.middle /\ ~f.ring /\ ~f.pinky
            THEN [type |-> "POINTING", confidence |-> 80]
       ELSE IF f.index /\ ~f.middle /\ ~f.ring /\ f.pinky
            THEN [type |-> "ROCK", confidence |-> 80]
       ELSE [type |-> "NONE", confidence |-> 50]

getPinchDistance(hand) == hand.pinch

\* recognize(landmarks, handIndex) of the Hand Magic Studio recognizer.
recognize(R, hand, handIndex) ==
    IF hand.count < LANDMARK_COUNT
    THEN [history |-> R.history, prev |-> R.prev,
          gesture |-> [type |-> "NONE", confidence |-> 0]]
    ELSE LET raw == classifyGesture(R, getFingerStates(hand), getPinchDistance(hand),
                                    handIndex)
             r == applyHysteresis(R, raw, handIndex)
         IN [history |-> r.history, prev |-> r.prev, gesture |-> r.gesture]

-----------------------------------------------------------------------------
(* HandGridController *)

\* Variant of getCellIndex without the mirroring of x.
getCellIndexUnmirrored(x, y) ==
    LET col == (x * gridCols) \div 100
        row == (y * gridRows) \div 100
    IN IF col < 0 \/ col >= gridCols \/ row < 0 \/ row >= gridRows THEN -1
       ELSE row * gridCols + col

\* Variant of getCellIndex whose range check admits col = gridCols and row = gridRows.
getCellIndexLoose(x, y) ==
    LET flippedX == 100 - x
        col == (flippedX * gridCols) \div 100
        row == (y * gridRows) \div 100
    IN IF col < 0 \/ col > gridCols \/ row < 0 \/ row > gridRows THEN -1
       ELSE row * gridCols + col

getCellIndex(x, y) ==
    LET flippedX == 100 - x
        col == (flippedX * gridCols) \div 100
        row == (y * gridRows) \div 100
    IN IF col < 0 \/ col >= gridCols \/ row < 0 \/ row >= gridRows THEN -1
       ELSE row * gridCols + col

getPalmAngle(hand) == hand.angle

\* null without world landmarks, else the z component of the palm normal
getPalmNormalZ(hand) == hand.world

\* Variant of grabObject that leaves the element in the cell's array.
grabObjectNoPop(S, handIndex, cellIndex, palmCenter, hand) ==
    IF cellIndex \notin DOMAIN S.cells \/ Len(S.cells[cellIndex]) = 0 THEN S
    ELSE LET el == Last(S.cells[cellIndex])
             held == [element |-> el, fromCellIndex |-> cellIndex,
                      grabAngle |-> getPalmAngle(hand),
                      grabNormalZ |-> getPalmNormalZ(hand),
                      grabWasBack |-> S.flipped[el], isBack |-> S.flipped[el]]
         IN [S EXCEPT !.held = Put(S.held, handIndex, held)]

\* Variant of grabObject that takes the oldest element (shift instead of pop).
grabObjectShift(S, handIndex, cellIndex, palmCenter, hand) ==
    IF cellIndex \notin DOMAIN S.cells \/ Len(S.cells[cellIndex]) = 0 THEN S
    ELSE LET arr == S.cells[cellIndex]
             el == Head(arr)
             rest == Tail(arr)
             cells == IF Len(rest) = 0 THEN Del(S.cells, cellIndex)
                      ELSE [S.cells EXCEPT ![cellIndex] = rest]
             held == [element |-> el, fromCellIndex |-> cellIndex,
                      grabAngle |-> getPalmAngle(hand),
                      grabNormalZ |-> getPalmNormalZ(hand),
                      grabWasBack |-> S.flipped[el], isBack |-> S.flipped[el]]
         IN [S EXCEPT !.cells = cells, !.held = Put(S.held, handIndex, held)]

grabObject(S, handIndex, cellIndex, palmCenter, hand) ==
    IF cellIndex \notin DOMAIN S.cells \/ Len(S.cells[cellIndex]) = 0 THEN S
    ELSE LET arr == S.cells[cellIndex]
             el == Last(arr)
             rest == Front(arr)
             cells == IF Len(rest) = 0 THEN Del(S.cells, cellIndex)
                      ELSE [S.cells EXCEPT ![cellIndex] = rest]
             grabWasBack == S.flipped[el]
             held == [element |-> el, fromCellIndex |-> cellIndex,
                      grabAngle |-> getPalmAngle(hand),
                      grabNormalZ |-> getPalmNormalZ(hand),
                      grabWasBack |-> grabWasBack, isBack |-> grabWasBack]
         IN [S EXCEPT !.cells = cells, !.held = Put(S.held, handIndex, held)]

\* Variant of dropObject that keeps the heldObjects entry.
dropObjectKeepHeld(S, handIndex, cellIndex) ==
    IF handIndex \notin DOMAIN S.held THEN S
    ELSE LET el == S.held[handIndex].element
             arr == IF cellIndex \in DOMAIN S.cells THEN S.cells[cellIndex] ELSE <<>>
         IN [S EXCEPT !.cells = Put(S.cells, cellIndex, Append(arr, el))]

\* Variant of dropObject that inserts at the bottom (unshift instead of push).
dropObjectUnshift(S, handIndex, cellIndex) ==
    IF handIndex \notin DOMAIN S.held THEN S
    ELSE LET el == S.held[handIndex].element
             arr == IF cellIndex \in DOMAIN S.cells THEN S.cells[cellIndex] ELSE <<>>
         IN [S EXCEPT !.cells = Put(S.cells, cellIndex, <<el>> \o arr),
                      !.held = Del(S.held, handIndex)]

\* Variant of dropObject that puts the element down front side up.
dropObjectFaceUp(S, handIndex, cellIndex) ==
    IF handIndex \notin DOMAIN S.held THEN S
    ELSE LET el == S.held[handIndex].element
             arr == IF cellIndex \in DOMAIN S.cells THEN S.cells[cellIndex] ELSE <<>>
         IN [S EXCEPT !.cells = Put(S.cells, cellIndex, Append(arr, el)),
                      !.held = Del(S.held, handIndex),
                      !.flipped = [@ EXCEPT ![el] = FALSE]]

dropObject(S, handIndex, cellIndex) ==
    IF handIndex \notin DOMAIN S.held THEN S
    ELSE LET el == S.held[handIndex].element
             arr == IF cellIndex \in DOMAIN S.cells THEN S.cells[cellIndex] ELSE <<>>
         IN [S EXCEPT !.cells = Put(S.cells, cellIndex, Append(arr, el)),
                      !.held = Del(S.held, handIndex)]

wrapAngle(diff) ==
    IF diff > 180 THEN diff - 360 ELSE IF diff < -180 THEN diff + 360 ELSE diff

abs(x) == IF x < 0 THEN -x ELSE x

\* Variant of updateHeldObjectFlip that counts a product of zero as flipped.
updateHeldObjectFlipOnZero(S, handIndex, hand) ==
    IF handIndex \notin DOMAIN S.held THEN S
    ELSE LET held == S.held[handIndex]
             byNormal == IF hand.world # Null /\ held.grabNormalZ # Null
                         THEN ((Val(hand.world) * Val(held.grabNormalZ) <= 0) # held.grabWasBack)
                         ELSE FALSE
             isBack == IF held.grabNormalZ = Null
                       THEN ((abs(wrapAngle(getPalmAngle(hand) - held.grabAngle)) > 30)
                                 # held.grabWasBack)
                       ELSE byNormal
         IN IF isBack # held.isBack
            THEN [S EXCEPT !.held = [S.held EXCEPT ![handIndex].isBack = isBack],
                           !.flipped = [S.flipped EXCEPT ![held.element] = isBack]]
            ELSE S

updateHeldObjectFlip(S, handIndex, hand) ==
    IF handIndex \notin DOMAIN S.held THEN S
    ELSE LET held == S.held[handIndex]
             byNormal == IF hand.world # Null /\ held.grabNormalZ # Null
                         THEN ((Val(hand.world) * Val(held.grabNormalZ) < 0) # held.grabWasBack)
                         ELSE FALSE
             isBack == IF held.grabNormalZ = Null
                       THEN ((abs(wrapAngle(getPalmAngle(hand) - held.grabAngle)) > 30)
                                 # held.grabWasBack)
                       ELSE byNormal
         IN IF isBack # held.isBack
            THEN [S EXCEPT !.held = [S.held EXCEPT ![handIndex].isBack = isBack],
                           !.flipped = [S.flipped EXCEPT ![held.element] = isBack]]
            ELSE S

\* The body of hands.forEach in processHands, for one hand.
\* Variant of processHands without the !heldObjects[handIndex] check.
processHandGreedy(S, hand, handIndex) ==
    LET r == gridRecognize([history |-> S.history, prev |-> S.prev], hand, handIndex)
        S1 == [S EXCEPT !.history = r.history, !.prev = r.prev]
        palmCenter == r.palmCenter
        cellIndex == getCellIndex(palmCenter[1], palmCenter[2])
        S2 == IF r.gesture.type = "FIST" /\ cellIndex >= 0
                   /\ cellIndex \in DOMAIN S1.cells /\ Len(S1.cells[cellIndex]) > 0
              THEN grabObject(S1, handIndex, cellIndex, palmCenter, hand) ELSE S1
        S3 == IF r.gesture.type = "OPEN" /\ handIndex \in DOMAIN S2.held
                   /\ cellIndex >= 0 /\ cellIndex < 9
              THEN dropObject(S2, handIndex, cellIndex) ELSE S2
    IN [state |-> S3, gesture |-> r.gesture]

\* Variant of processHands that grabs on every gesture type but OPEN.
processHandAnyGesture(S, hand, handIndex) ==
    LET r == gridRecognize([history |-> S.history, prev |-> S.prev], hand, handIndex)
        S1 == [S EXCEPT !.history = r.history, !.prev = r.prev]
        palmCenter == r.palmCenter
        cellIndex == getCellIndex(palmCenter[1], palmCenter[2])
        S2 == IF r.gesture.type # "OPEN" /\ handIndex \notin DOMAIN S1.held
                   /\ cellIndex >= 0
                   /\ cellIndex \in DOMAIN S1.cells /\ Len(S1.cells[cellIndex]) > 0
              THEN grabObject(S1, handIndex, cellIndex, palmCenter, hand) ELSE S1
        S3 == IF r.gesture.type = "OPEN" /\ handIndex \in DOMAIN S2.held
                   /\ cellIndex >= 0 /\ cellIndex < 9
              THEN dropObject(S2, handIndex, cellIndex) ELSE S2
    IN [state |-> S3, gesture |-> r.gesture]

processHand(S, hand, handIndex) ==
    LET r == gridRecognize([history |-> S.history, prev |-> S.prev], hand, handIndex)
        S1 == [S EXCEPT !.history = r.history, !.prev = r.prev]
        palmCenter == r.palmCenter
        cellIndex == getCellIndex(palmCenter[1], palmCenter[2])
        S2 == IF r.gesture.type = "FIST"
                   /\ handIndex \notin DOMAIN S1.held /\ cellIndex >= 0
                   /\ cellIndex \in DOMAIN S1.cells /\ Len(S1.cells[cellIndex]) > 0
              THEN grabObject(S1, handIndex, cellIndex, palmCenter, hand)
              ELSE S1
        S3 == IF r.gesture.type = "OPEN"
                   /\ handIndex \in DOMAIN S2.held /\ cellIndex >= 0 /\ cellIndex < 9
              THEN dropObject(S2, handIndex, cellIndex)
              ELSE S2
    IN [state |-> S3, gesture |-> r.gesture]

\* One iteration of the position-follow loop of animate().
\* Variant of the follow loop that puts the element of an unreported hand back
\* into the cell it was grabbed from.
followHandRelease(S, seen, handIndex) ==
    IF handIndex \in DOMAIN S.held /\ handIndex < Len(seen)
    THEN LET hand == seen[handIndex + 1]
             r == gridRecognize([history |-> S.history, prev |-> S.prev],
                                hand, handIndex)
             S1 == [S EXCEPT !.history = r.history, !.prev = r.prev]
         IN updateHeldObjectFlip(S1, handIndex, hand)
    ELSE IF handIndex \in DOMAIN S.held
    THEN dropObject(S, handIndex, S.held[handIndex].fromCellIndex)
    ELSE S

followHand(S, seen, handIndex) ==
    IF handIndex \in DOMAIN S.held /\ handIndex < Len(seen)
    THEN LET hand == seen[handIndex + 1]
             r == gridRecognize([history |-> S.history, prev |-> S.prev], hand, handIndex)
             S1 == [S EXCEPT !.history = r.history, !.prev = r.prev]
         IN updateHeldObjectFlip(S1, handIndex, hand)
    ELSE S

RECURSIVE followFrom(_, _, _)
followFrom(S, seen, handIndex) ==
    IF handIndex >= numHands THEN S
    ELSE followFrom(followHand(S, seen, handIndex), seen, handIndex + 1)

followHeld(S, seen) == followFrom(S, seen, 0)

\* createGridObjects(cellIndices) after `made` elements have been created: one
\* new element per index, and the array of the cell is replaced by it.
createGridObjects(S, cellIndices, made) ==
    LET indices == {cellIndices[i] : i \in DOMAIN cellIndices}
        newest(c) == CHOOSE i \in DOMAIN cellIndices :
                        /\ cellIndices[i] = c
                        /\ \A j \in DOMAIN cellIndices : cellIndices[j] = c => j <= i
    IN [S EXCEPT !.cells = [c \in DOMAIN S.cells \cup indices |->
                               IF c \in indices THEN <<made + newest(c)>> ELSE S.cells[c]],
                 !.flipped = [e \in DOMAIN S.flipped \cup (made + 1) .. (made + Len(cellIndices)) |->
                                 IF e \in DOMAIN S.flipped THEN S.flipped[e] ELSE FALSE]]

-----------------------------------------------------------------------------
(* Inputs *)

FIST_FINGERS == <<FALSE, FALSE, FALSE, FALSE, FALSE>>
OPEN_FINGERS == <<TRUE, TRUE, TRUE, TRUE, TRUE>>
PEACE_FINGERS == <<FALSE, TRUE, TRUE, FALSE, FALSE>>

GridFingers == {FIST_FINGERS, OPEN_FINGERS, PEACE_FINGERS}
\* palm centres over cell 0, over cell 4 and outside the image
GridPalms == {<<90, 10>>, <<50, 50>>, <<150, 50>>}

GridHands ==
    [count : {LANDMARK_COUNT}, fingers : GridFingers, palm : GridPalms,
     world : {Null}, angle : {0}, pinch : {20}]

\* hands reported with world landmarks: the palm normal's z is negative (back
\* of the hand to the camera), zero (edge on) or positive (palm to the camera)
PalmNormals == {-1, 0, 1}

TurningHands ==
    [count : {LANDMARK_COUNT}, fingers : {FIST_FINGERS, OPEN_FINGERS},
     palm : {<<90, 10>>, <<50, 50>>}, world : {Some(z) : z \in PalmNormals},
     angle : {0}, pinch : {20}]

\* hands whose world landmarks come and go, at the grab angle or a quarter
\* turn away from it
DepthLossHands ==
    [count : {LANDMARK_COUNT}, fingers : {FIST_FINGERS, OPEN_FINGERS},
     palm : {<<90, 10>>, <<50, 50>>}, world : {Null, Some(1)},
     angle : {0, 90}, pinch : {20}]

\* hands without world landmarks, at the grab angle or a quarter turn away
RotatingHands ==
    [count : {LANDMARK_COUNT}, fingers : {FIST_FINGERS, OPEN_FINGERS},
     palm : {<<90, 10>>, <<50, 50>>}, world : {Null}, angle : {0, 90}, pinch : {20}]

\* hands reported with all 21 landmarks or with one landmark missing
MalformedHands ==
    [count : {LANDMARK_COUNT - 1, LANDMARK_COUNT}, fingers : GridFingers,
     palm : {<<90, 10>>, <<50, 50>>}, world : {Null}, angle : {0}, pinch : {20}]

\* thumb tip to index tip: below the start threshold, between the two, above both
StudioPinches == {5, 8, 11}

StudioHands ==
    [count : {LANDMARK_COUNT}, fingers : GridFingers, palm : {<<50, 50>>},
     world : {Null}, angle : {0}, pinch : StudioPinches]

rawType(hand) == gridClassifyGesture(getFingerStates(hand)).type

-----------------------------------------------------------------------------
(* MagicParticleField. Lengths are ten-thousandths of a world unit, factors
   are thousandths, and the inertia velocity is kept in VelocityUnit-ths of a
   length unit so that its damping does not drown in rounding; the colours of
   the particles are renderer output, not state. *)

particleCount == 3
sphereRadius == 12000
lerpSpeed == 80
gatherSpeed == 120
gravity == 3000
inertia == 150
damping == 920
reachedDistance == 100
VelocityUnit == 100

Particles == 0 .. (particleCount - 1)

\* n / d rounded to the nearest integer.
Round(n, d) == (2 * n + d) \div (2 * d)

addVectors(a, b) == <<a[1] + b[1], a[2] + b[2], a[3] + b[3]>>
subVectors(a, b) == <<a[1] - b[1], a[2] - b[2], a[3] - b[3]>>
multiplyScalar(a, num, den) == <<Round(a[1] * num, den), Round(a[2] * num, den), Round(a[3] * num, den)>>
lengthSq(a) == a[1] * a[1] + a[2] * a[2] + a[3] * a[3]

\* Math.sqrt on whole thousandths: the largest k with k * k <= n, by bisection.
RECURSIVE sqrtBetween(_, _, _)
sqrtBetween(n, lo, hi) ==
    IF hi - lo <= 1 THEN lo
    ELSE LET mid == (lo + hi) \div 2
         IN IF mid * mid <= n THEN sqrtBetween(n, mid, hi) ELSE sqrtBetween(n, lo, mid)
sqrt(n) == sqrtBetween(n, 0, 46340)

\* Math.sin of an angle in thousandths of a radian, in thousandths
\* (Bhaskara's rational form on each half period).
PI == 3142
halfSine(x) == (16 * x * (PI - x)) \div ((5 * PI * PI - 4 * x * (PI - x)) \div 1000)
sin(a) ==
    LET x == a % (2 * PI)
    IN IF x < PI THEN halfSine(x) ELSE 0 - halfSine(x - PI)
cos(a) == sin(a + PI \div 2)

\* The golden-angle points of gather(): sphereRadius * (sin(phi) cos(theta),
\* sin(phi) sin(theta), cos(phi)) with phi = acos(1 - 2 (i + 0.5) / particleCount)
\* and theta = PI (1 + sqrt(5)) i, evaluated for the particle counts in use.
goldenSphere ==
    CASE particleCount = 2 -> <<<<10392, 0, 6000>>, <<-7663, -7020, -6000>>>>
      [] particleCount = 3 -> <<<<8944, 0, 8000>>, <<-8848, -8106, 0>>,
                                <<782, 8910, -8000>>>>
      [] particleCount = 4 -> <<<<7937, 0, 9000>>, <<-8567, -7848, 3000>>,
                                <<1016, 11574, -3000>>, <<4829, -6299, -9000>>>>

\* init(): positions drawn by Math.random, targets and home positions equal to them.
init(layout) ==
    [state |-> "scattered",
     targetCenter |-> <<0, 0, 0>>,
     velocity |-> <<0, 0, 0>>,
     positions |-> layout,
     targetPositions |-> layout,
     originalScatterPositions |-> layout]

\* Variant of scatter() without the early return.
scatterAgain(F, jitter) ==
    [F EXCEPT !.state = "scattered",
              !.targetPositions =
                  [i \in Particles |-> addVectors(F.originalScatterPositions[i], jitter[i])]]

\* scatter(): jitter[i] is the random offset drawn for particle i.
scatter(F, jitter) ==
    IF F.state = "scattered" THEN F
    ELSE [F EXCEPT !.state = "scattered",
                   !.targetPositions =
                       [i \in Particles |-> addVectors(F.originalScatterPositions[i], jitter[i])]]

gather(F, center) ==
    [F EXCEPT !.state = "gathering",
              !.targetCenter = center,
              !.targetPositions = [i \in Particles |-> addVectors(center, goldenSphere[i + 1])]]

\* Variant of updateGatherCenter that moves the centre but not the targets.
updateGatherCenterNoShift(F, center) ==
    IF F.state # "gathering" /\ F.state # "gathered" THEN F
    ELSE LET delta == subVectors(center, F.targetCenter)
         IN [F EXCEPT !.velocity = addVectors(@, multiplyScalar(delta, inertia * VelocityUnit,
                                                                1000)),
                      !.targetCenter = center]

updateGatherCenter(F, center) ==
    IF F.state # "gathering" /\ F.state # "gathered" THEN F
    ELSE LET delta == subVectors(center, F.targetCenter)
         IN [F EXCEPT !.velocity = addVectors(@, multiplyScalar(delta, inertia * VelocityUnit,
                                                                1000)),
                      !.targetCenter = center,
                      !.targetPositions = [i \in Particles |-> addVectors(@[i], delta)]]

\* The wobble of a scattered particle at Date.now() = now (milliseconds).
wobble(now, i) ==
    <<Round(sin(now + 1000 * i) * 20, 1000),
      Round(cos(now + 1500 * i) * 20, 1000),
      Round(sin((now * 3) \div 2 + 500 * i) * 10, 1000)>>

\* Variant of update() that declares the field gathered as soon as one particle
\* has reached its target.
updateAnyReached(F, now) ==
    LET damped == multiplyScalar(F.velocity, damping, 1000)
        together == F.state = "gathering" \/ F.state = "gathered"
        velocity == IF together
                    THEN <<damped[1], damped[2] - Round(gravity * VelocityUnit, 100),
                           damped[3]>>
                    ELSE damped
        target(i) ==
            IF together
            THEN subVectors(F.targetPositions[i],
                            multiplyScalar(velocity, 450, 1000 * VelocityUnit))
            ELSE F.targetPositions[i]
        d == [i \in Particles |-> subVectors(target(i), F.positions[i])]
        speed == IF F.state = "scattered" THEN lerpSpeed \div 2 ELSE gatherSpeed
    IN [F EXCEPT !.velocity = velocity,
                 !.positions = [i \in Particles |->
                                   addVectors(@[i], multiplyScalar(d[i], speed, 1000))],
                 !.state = IF F.state = "gathering"
                              /\ \E i \in Particles :
                                    lengthSq(d[i]) <= reachedDistance * reachedDistance
                           THEN "gathered" ELSE @]

\* Variant of update() whose reached test asks for the exact target.
updateExactArrival(F, now) ==
    LET together == F.state = "gathering" \/ F.state = "gathered"
        damped == multiplyScalar(F.velocity, damping, 1000)
        velocity == IF together
                    THEN <<damped[1], damped[2] - Round(gravity * VelocityUnit, 100),
                           damped[3]>>
                    ELSE damped
        target(i) ==
            IF together
            THEN LET centerDist == sqrt(lengthSq(subVectors(F.targetPositions[i],
                                                            F.targetCenter)))
                     \* delayFactor * 0.3 with delayFactor = 1 + centerDist / sphereRadius * 0.5
                     factor == Round((2 * sphereRadius + centerDist) * 300,
                                     2 * sphereRadius)
                     inertiaOffset == multiplyScalar(velocity, factor, 1000 * VelocityUnit)
                 IN subVectors(F.targetPositions[i], inertiaOffset)
            ELSE F.targetPositions[i]
        d == [i \in Particles |-> subVectors(target(i), F.positions[i])]
        allReached == \A i \in Particles :
                          lengthSq(d[i]) = 0
        speed == IF F.state = "scattered" THEN lerpSpeed \div 2 ELSE gatherSpeed
        moved == [i \in Particles |->
                     addVectors(F.positions[i], multiplyScalar(d[i], speed, 1000))]
    IN [F EXCEPT !.velocity = velocity,
                 !.positions = [i \in Particles |->
                                   IF F.state = "scattered"
                                   THEN addVectors(moved[i], wobble(now, i))
                                   ELSE moved[i]],
                 !.state = IF F.state = "gathering" /\ allReached THEN "gathered" ELSE @]

\* update(): one frame of the field.
update(F, now) ==
    LET together == F.state = "gathering" \/ F.state = "gathered"
        damped == multiplyScalar(F.velocity, damping, 1000)
        velocity == IF together
                    THEN <<damped[1], damped[2] - Round(gravity * VelocityUnit, 100),
                           damped[3]>>
                    ELSE damped
        target(i) ==
            IF together
            THEN LET centerDist == sqrt(lengthSq(subVectors(F.targetPositions[i],
                                                            F.targetCenter)))
                     \* delayFactor * 0.3 with delayFactor = 1 + centerDist / sphereRadius * 0.5
                     factor == Round((2 * sphereRadius + centerDist) * 300,
                                     2 * sphereRadius)
                     inertiaOffset == multiplyScalar(velocity, factor, 1000 * VelocityUnit)
                 IN subVectors(F.targetPositions[i], inertiaOffset)
            ELSE F.targetPositions[i]
        d == [i \in Particles |-> subVectors(target(i), F.positions[i])]
        allReached == \A i \in Particles :
                          lengthSq(d[i]) <= reachedDistance * reachedDistance
        speed == IF F.state = "scattered" THEN lerpSpeed \div 2 ELSE gatherSpeed
        moved == [i \in Particles |->
                     addVectors(F.positions[i], multiplyScalar(d[i], speed, 1000))]
    IN [F EXCEPT !.velocity = velocity,
                 !.positions = [i \in Particles |->
                                   IF F.state = "scattered"
                                   THEN addVectors(moved[i], wobble(now, i))
                                   ELSE moved[i]],
                 !.state = IF F.state = "gathering" /\ allReached THEN "gathered" ELSE @]


-----------------------------------------------------------------------------
(* HandMagicStudio: one animation frame drives the particle field from the
   first detected hand. *)

baseScale == 8
screenAspectWidth == 4
screenAspectHeight == 3

\* toWorld(lm) of processHands for a video whose aspect ratio equals the
\* window's (nothing is clipped, so both offsets are 0); lm is in hundredths
\* of the image, the result in ten-thousandths of a world unit.
toWorld(lm) ==
    LET scaleX == baseScale * 100
        scaleY == (scaleX * screenAspectHeight) \div screenAspectWidth
    IN <<(lm[1] - 50) * (0 - scaleX), 0 - (lm[2] - 50) * scaleY, 0 - lm[3] * 400>>

\* processHands(hands): only the hand at index 0 steers the field. The result
\* is the field, the recognizer state and the name of the method called.
processHands(F, R, detected, jitter) ==
    LET r == recognize(R, detected[1], 0)
        handPos == toWorld(detected[1].palm)
        field == IF r.gesture.type = "FIST"
                 THEN IF F.state = "scattered" THEN gather(F, handPos)
                      ELSE updateGatherCenter(F, handPos)
                 ELSE IF r.gesture.type = "OPEN" THEN scatter(F, jitter)
                 ELSE F
        method == IF r.gesture.type = "FIST"
                  THEN IF F.state = "scattered" THEN "gather" ELSE "updateGatherCenter"
                  ELSE IF r.gesture.type = "OPEN" THEN "scatter"
                  ELSE "none"
    IN [field |-> field, recognizer |-> [history |-> r.history, prev |-> r.prev],
        gesture |-> r.gesture.type, method |-> method, center |-> handPos]

\* Variant of animate that leaves the field alone when no hand is detected.
animateIdleWithoutHands(F, R, detected, jitter, now) ==
    LET p == IF Len(detected) > 0 THEN processHands(F, R, detected, jitter)
             ELSE [field |-> F, recognizer |-> R, gesture |-> NoGesture,
                   method |-> "none", center |-> F.targetCenter]
    IN [p EXCEPT !.field = update(p.field, now)]

\* animate(): detectHands, then processHands or scatter, then update.
animate(F, R, detected, jitter, now) ==
    LET p == IF Len(detected) > 0 THEN processHands(F, R, detected, jitter)
             ELSE [field |-> scatter(F, jitter), recognizer |-> R, gesture |-> NoGesture,
                   method |-> "scatter", center |-> F.targetCenter]
    IN [p EXCEPT !.field = update(p.field, now)]

-----------------------------------------------------------------------------
(* HandTracker. A hand is its list of landmarks, a landmark is <<x, y, z>>;
   coordinates are in units of 1/31250 so that the smoothing below is exact
   for the first five frames of a hand. *)

\* smoothingFactor, in tenths
smoothingFactor == 8

smoothCoordinate(prev, raw) ==
    (prev * (10 - smoothingFactor) + raw * smoothingFactor) \div 10

smoothLandmark(prevLm, lm) ==
    [k \in DOMAIN lm |-> smoothCoordinate(prevLm[k], lm[k])]

\* Variant of smoothLandmarks that keeps the raw landmarks as the history.
smoothLandmarksKeepingRaw(prevLandmarks, landmarks, handIndex) ==
    IF handIndex \notin DOMAIN prevLandmarks
    THEN [prevLandmarks |-> Put(prevLandmarks, handIndex, landmarks),
          smoothed |-> landmarks]
    ELSE LET prev == prevLandmarks[handIndex]
             smoothed == [idx \in DOMAIN landmarks |->
                             IF idx \notin DOMAIN prev THEN landmarks[idx]
                             ELSE smoothLandmark(prev[idx], landmarks[idx])]
         IN [prevLandmarks |-> Put(prevLandmarks, handIndex, landmarks),
             smoothed |-> smoothed]

\* smoothLandmarks(landmarks, handIndex): the new prevLandmarks and the result.
smoothLandmarks(prevLandmarks, landmarks, handIndex) ==
    IF handIndex \notin DOMAIN prevLandmarks
    THEN [prevLandmarks |-> Put(prevLandmarks, handIndex, landmarks),
          smoothed |-> landmarks]
    ELSE LET prev == prevLandmarks[handIndex]
             smoothed == [idx \in DOMAIN landmarks |->
                             IF idx \notin DOMAIN prev THEN landmarks[idx]
                             ELSE smoothLandmark(prev[idx], landmarks[idx])]
         IN [prevLandmarks |-> Put(prevLandmarks, handIndex, smoothed),
             smoothed |-> smoothed]

RECURSIVE smoothFrom(_, _, _)
\* result.landmarks.map(...) from the hand at handIndex on.
smoothFrom(prevLandmarks, result, handIndex) ==
    IF handIndex >= Len(result) THEN [prevLandmarks |-> prevLandmarks, hands |-> <<>>]
    ELSE LET r == smoothLandmarks(prevLandmarks, result[handIndex + 1], handIndex)
             rest == smoothFrom(r.prevLandmarks, result, handIndex + 1)
         IN [prevLandmarks |-> rest.prevLandmarks,
             hands |-> <<[landmarks |-> r.smoothed]>> \o rest.hands]

\* detectHands() on the tracker T: `ready` is the outcome of its first two
\* checks, currentTime the time of the video frame, and outcome tells whether
\* detectForVideo threw and otherwise the list of raw hands it returned.
\* A returned null is Null; a list of hands is wrapped in Some.
detectHands(T, ready, currentTime, outcome) ==
    IF ~ready THEN [tracker |-> T, returned |-> Null]
    ELSE IF currentTime = T.lastVideoTime THEN [tracker |-> T, returned |-> T.lastResult]
    ELSE LET T1 == [T EXCEPT !.lastVideoTime = currentTime]
         IN IF outcome.threw THEN [tracker |-> T1, returned |-> Null]
            ELSE IF Len(outcome.landmarks) > 0
            THEN LET r == smoothFrom(T1.prevLandmarks, outcome.landmarks, 0)
                     T2 == [T1 EXCEPT !.prevLandmarks = r.prevLandmarks,
                                      !.lastResult = Some(r.hands)]
                 IN [tracker |-> T2, returned |-> T2.lastResult]
            ELSE [tracker |-> [T1 EXCEPT !.lastResult = Null, !.prevLandmarks = <<>>],
                  returned |-> Null]

-----------------------------------------------------------------------------
(* Scene3D: the hands the App passes down, one HandMesh per hand, the shared
   handDataRef and the InteractiveCube. A hand is what HandMesh derives from
   its landmarks: the thumb-tip/index-tip distance and the pinch centre.
   Lengths are thousandths of a world unit. The colours of the cube and the
   handPositions shown in the overlay are renderer output, not state. *)

PINCH_START_THRESHOLD == 60
PINCH_END_THRESHOLD == 120
INTERACTION_RADIUS == 150
\* the weight of position.lerp in the cube's frame callback, in thousandths
followWeight == 200

\* Variant of the pinch hysteresis that uses the start threshold to end a pinch.
pinchHysteresisOneThreshold(isPinching, pinchDistance) ==
    IF isPinching THEN ~(pinchDistance > PINCH_START_THRESHOLD)
    ELSE pinchDistance < PINCH_START_THRESHOLD

\* HandMesh useFrame: the new value of isPinchingRef.
pinchHysteresis(isPinching, pinchDistance) ==
    IF isPinching THEN ~(pinchDistance > PINCH_END_THRESHOLD)
    ELSE pinchDistance < PINCH_START_THRESHOLD

\* HandMesh useFrame of the hand at handIndex, with handleHandUpdate.
handMeshFrame(S, handIndex) ==
    LET hand == Val(S.handsResult)[handIndex + 1]
        newPinching == pinchHysteresis(S.isPinching[handIndex], hand.pinchDistance)
    IN [S EXCEPT !.isPinching = [@ EXCEPT ![handIndex] = newPinching],
                 !.handData = IF handIndex = 0
                              THEN Some([position |-> hand.pinchCenter,
                                         isPinching |-> newPinching])
                              ELSE @]

RECURSIVE handMeshFrames(_, _)
handMeshFrames(S, handIndex) ==
    IF S.handsResult = Null \/ handIndex >= Len(Val(S.handsResult)) THEN S
    ELSE handMeshFrames(handMeshFrame(S, handIndex), handIndex + 1)

\* Variant of the cube's frame callback that grabs on any pinch, near or far.
cubeFrameAnyDistance(S) ==
    IF S.handData = Null THEN S
    ELSE LET handPos == Val(S.handData).position
             isPinching == Val(S.handData).isPinching
         IN IF S.isGrabbing
            THEN IF isPinching
                 THEN LET targetPos == addVectors(handPos, S.grabOffset)
                      IN [S EXCEPT !.cube = addVectors(@,
                              multiplyScalar(subVectors(targetPos, @), followWeight, 1000))]
                 ELSE [S EXCEPT !.isGrabbing = FALSE]
            ELSE IF isPinching
                 THEN [S EXCEPT !.isGrabbing = TRUE,
                                !.grabOffset = subVectors(S.cube, handPos)]
                 ELSE S

\* InteractiveCube useFrame.
cubeFrame(S) ==
    IF S.handData = Null THEN S
    ELSE LET handPos == Val(S.handData).position
             isPinching == Val(S.handData).isPinching
             near == lengthSq(subVectors(handPos, S.cube))
                        < INTERACTION_RADIUS * INTERACTION_RADIUS
         IN IF S.isGrabbing
            THEN IF isPinching
                 THEN LET targetPos == addVectors(handPos, S.grabOffset)
                      IN [S EXCEPT !.cube = addVectors(@,
                              multiplyScalar(subVectors(targetPos, @), followWeight, 1000))]
                 ELSE [S EXCEPT !.isGrabbing = FALSE]
            ELSE IF isPinching /\ near
                 THEN [S EXCEPT !.isGrabbing = TRUE,
                                !.grabOffset = subVectors(S.cube, handPos)]
                 ELSE S

\* One rendered frame: the frame callbacks in the order of their subscription,
\* the cube's (mounted with the canvas) before those of the hands.
sceneFrame(S) == handMeshFrames(cubeFrame(S), 0)

\* predictWebcam and the render it triggers: setHandsResult only for a
\* non-empty result; then one HandMesh per hand (a new one starts not
\* pinching, one whose index is gone is unmounted), and the hand-count effect
\* of Scene3D (which clears handDataRef only for a count of 0).
predictWebcam(S, ready, newFrame, result) ==
    IF ~ready \/ ~newFrame \/ Len(result) = 0 THEN S
    ELSE [S EXCEPT !.handsResult = Some(result),
                   !.isPinching = [h \in 0 .. (Len(result) - 1) |->
                                      IF h \in DOMAIN S.isPinching THEN S.isPinching[h]
                                      ELSE FALSE]]

-----------------------------------------------------------------------------
(* The experiment protocol of the grid (IMPLEMENTATION.md, section 8). The
   grid of the protocol starts with one object in each of the cells 6, 7, 8;
   dataset.initialCell of an object is the cell it was created in. *)

protocolCells == <<6, 7, 8>>
initialCell(el) == protocolCells[el]

protocolSteps ==
    <<[state |-> "Phase1_Step1", from |-> 6, to |-> 3],
      [state |-> "Phase1_Step2", from |-> 7, to |-> 4],
      [state |-> "Phase1_Step3", from |-> 8, to |-> 5],
      [state |-> "Phase2_Step1", from |-> 3, to |-> 6],
      [state |-> "Phase2_Step2", from |-> 4, to |-> 7],
      [state |-> "Phase2_Step3", from |-> 5, to |-> 8]>>

\* the position of a state in the sequence of steps, 0 if it is not a step
stepIndex(state) ==
    IF \E i \in DOMAIN protocolSteps : protocolSteps[i].state = state
    THEN CHOOSE i \in DOMAIN protocolSteps : protocolSteps[i].state = state
    ELSE 0

\* Variant of getExpectedMoveForCurrentStep in which a failed protocol expects
\* the move of the first step again.
getExpectedMoveAfterFailure(P) ==
    IF P.protocolState = "PhaseFailed" THEN Some(protocolSteps[1])
    ELSE IF stepIndex(P.protocolState) = 0 THEN Null
    ELSE Some(protocolSteps[stepIndex(P.protocolState)])

getExpectedMoveForCurrentStep(P) ==
    IF stepIndex(P.protocolState) = 0 THEN Null
    ELSE Some(protocolSteps[stepIndex(P.protocolState)])

\* the cell whose array holds the element, -1 if it is in no cell
getCellOfObject(cells, el) ==
    IF \E c \in DOMAIN cells : \E i \in DOMAIN cells[c] : cells[c][i] = el
    THEN CHOOSE c \in DOMAIN cells : \E i \in DOMAIN cells[c] : cells[c][i] = el
    ELSE -1

nextProtocolState(state) ==
    IF stepIndex(state) = Len(protocolSteps) THEN "PhaseDone"
    ELSE protocolSteps[stepIndex(state) + 1].state

\* Variant of checkProtocolStep that goes back to the step before when the
\* object of that step is no longer in its target cell.
checkProtocolStepReentering(P, cells) ==
    LET move == getExpectedMoveForCurrentStep(P)
        index == stepIndex(P.protocolState)
    IN IF move = Null THEN P
       ELSE IF index > 1
                 /\ ~\E el \in DOMAIN protocolCells :
                       /\ initialCell(el) = protocolSteps[index - 1].from
                       /\ getCellOfObject(cells, el) = protocolSteps[index - 1].to
            THEN [P EXCEPT !.protocolState = protocolSteps[index - 1].state]
       ELSE IF \E el \in DOMAIN protocolCells :
                 /\ initialCell(el) = Val(move).from
                 /\ getCellOfObject(cells, el) = Val(move).to
            THEN [P EXCEPT !.protocolState = nextProtocolState(@)]
            ELSE P

\* checkProtocolStep: advance when the object created in the step's first cell
\* is now in the step's target cell.
checkProtocolStep(P, cells) ==
    LET move == getExpectedMoveForCurrentStep(P)
    IN IF move = Null THEN P
       ELSE IF \E el \in DOMAIN protocolCells :
                 /\ initialCell(el) = Val(move).from
                 /\ getCellOfObject(cells, el) = Val(move).to
            THEN [P EXCEPT !.protocolState = nextProtocolState(@)]
            ELSE P

\* Variant of the violation check that looks at the cell of the drop only.
checkDropViolationCellOnly(P, el, cellIndex) ==
    LET move == getExpectedMoveForCurrentStep(P)
    IN IF P.experimentMode /\ move # Null /\ cellIndex # Val(move).to
       THEN [P EXCEPT !.protocolState = "PhaseFailed"]
       ELSE P

\* The violation check of processHands, just before an OPEN hand drops.
checkDropViolation(P, el, cellIndex) ==
    LET move == getExpectedMoveForCurrentStep(P)
    IN IF P.experimentMode /\ move # Null
            /\ (cellIndex # Val(move).to \/ initialCell(el) # Val(move).from)
       THEN [P EXCEPT !.protocolState = "PhaseFailed"]
       ELSE P

\* One frame of the grid with the protocol, for no hand or one hand: the hand
\* is processed (with the violation check before its drop), the held object
\* follows, and checkProtocolStep ends the frame.
animateProtocol(S, P, detected) ==
    IF Len(detected) = 0
    THEN [state |-> S, protocol |-> checkProtocolStep(P, S.cells), gesture |-> NoGesture,
          drop |-> Null]
    ELSE LET hand == detected[1]
             r == processHand(S, hand, 0)
             cellIndex == getCellIndex(hand.palm[1], hand.palm[2])
             dropped == 0 \in DOMAIN S.held /\ 0 \notin DOMAIN r.state.held
             P1 == IF dropped THEN checkDropViolation(P, S.held[0].element, cellIndex)
                   ELSE P
             S1 == followHeld(r.state, detected)
         IN [state |-> S1, protocol |-> checkProtocolStep(P1, S1.cells),
             gesture |-> r.gesture.type,
             drop |-> IF dropped
                      THEN Some([element |-> S.held[0].element, to |-> cellIndex,
                                 during |-> P.protocolState, judged |-> P1.protocolState])
                      ELSE Null]

-----------------------------------------------------------------------------
(* State machine *)

State ==
    [cells |-> cellObjects, held |-> heldObjects, flipped |-> flipped,
     history |-> gestureHistory, prev |-> prevGestures]

Install(S) ==
    /\ cellObjects' = S.cells
    /\ heldObjects' = S.held
    /\ flipped' = S.flipped
    /\ gestureHistory' = S.history
    /\ prevGestures' = S.prev

Owners(held) == [h \in DOMAIN held |-> held[h].element]

\* The controller after start(): createGridObjects([0, 4]), isRunning = true.
Start ==
    /\ cellObjects = [c \in {InitialCells[e] : e \in Elements} |->
                         <<CHOOSE e \in Elements : InitialCells[e] = c>>]
    /\ heldObjects = <<>>
    /\ flipped = [e \in Elements |-> FALSE]
    /\ gestureHistory = <<>>
    /\ prevGestures = <<>>
    /\ pc = "idle"
    /\ handCount = 0
    /\ hands = <<>>
    /\ gesture = [h \in HandSlots |-> NoGesture]
    /\ moves = <<>>
    /\ calls = [h \in HandSlots |-> <<>>]
    /\ rawLog = [h \in HandSlots |-> <<>>]
    /\ grabSnap = [h \in HandSlots |-> Null]

NoSwarm == swarm = Null /\ swarmTrace = Null
NoTracker == tracker = Null
NoScene == scene = Null
NoProtocol == protocol = Null
NoStartup == startup = Null

Init == Start /\ probe = Null /\ NoSwarm /\ NoTracker /\ NoScene /\ NoProtocol /\ NoStartup

\* animate() up to the result of detectHands(): n hands, in slots 0 .. n-1.
Detect(maxHands) ==
    /\ pc = "idle"
    /\ \E n \in 0 .. maxHands :
         /\ handCount' = n
         /\ pc' = IF n > 0 THEN "hands" ELSE "idle"
         /\ rawLog' = [h \in HandSlots |-> IF h < n THEN rawLog[h] ELSE <<>>]
    /\ hands' = <<>>
    /\ UNCHANGED <<cellObjects, heldObjects, flipped, gestureHistory,
                   prevGestures, gesture, moves, calls, grabSnap, probe,
                   swarm, swarmTrace, tracker, scene, protocol, startup>>

\* Variant of forEachIndex that visits the hands from the last to the first.
forEachIndexReversed(visited, n) == n - 1 - visited

\* hands.forEach((hand, handIndex) => ...): the index visited next, after
\* `visited` of the n hands.
forEachIndex(visited, n) == visited

\* processHands: one iteration of hands.forEach.
ProcessOf(detectable, logTicks) ==
    /\ pc = "hands"
    /\ Len(hands) < handCount
    /\ \E hand \in detectable :
       \E r \in {processHand(State, hand, forEachIndex(Len(hands), handCount))} :
         LET handIndex == forEachIndex(Len(hands), handCount)
             grabbed == handIndex \notin DOMAIN heldObjects
                            /\ handIndex \in DOMAIN r.state.held
             dropped == handIndex \in DOMAIN heldObjects
                            /\ handIndex \notin DOMAIN r.state.held
             cellIndex == getCellIndex(hand.palm[1], hand.palm[2])
         IN /\ Install(r.state)
            /\ hands' = Append(hands, hand)
            /\ gesture' = [gesture EXCEPT ![handIndex] = r.gesture.type]
            /\ moves' = Append(moves,
                  IF grabbed THEN [kind |-> "grab", from |-> cellIndex, clean |-> TRUE,
                                   element |-> r.state.held[handIndex].element]
                  ELSE IF dropped
                  THEN [kind |-> "drop", from |-> heldObjects[handIndex].fromCellIndex,
                        clean |-> grabSnap[handIndex] # Null,
                        element |-> heldObjects[handIndex].element]
                  ELSE [kind |-> "none", from |-> cellIndex, clean |-> TRUE,
                        element |-> 0])
            /\ rawLog' = IF logTicks
                         THEN [rawLog EXCEPT ![handIndex] = LastN(Append(@, rawType(hand)), 4)]
                         ELSE rawLog
            /\ grabSnap' = [h \in HandSlots |->
                  IF grabbed /\ h = handIndex
                  THEN Some([cells |-> cellObjects, owners |-> Owners(heldObjects)])
                  ELSE IF grabbed \/ dropped THEN Null ELSE grabSnap[h]]
            /\ pc' = IF Len(hands) + 1 = handCount THEN "follow" ELSE "hands"
    /\ UNCHANGED <<handCount, calls, probe, swarm, swarmTrace, tracker, scene, protocol, startup>>

\* animate(): the loop over Object.keys(heldObjects), then the frame ends.
FollowHeld ==
    /\ pc = "follow"
    /\ \E S \in {followHeld(State, hands)} : Install(S)
    /\ pc' = "idle"
    /\ handCount' = 0
    /\ hands' = <<>>
    /\ moves' = <<>>
    /\ UNCHANGED <<gesture, calls, rawLog, grabSnap, probe, swarm, swarmTrace, tracker, scene, protocol, startup>>

Process(logTicks) == ProcessOf(GridHands, logTicks)

DetectHands == Detect(numHands)
ProcessHand == Process(FALSE)

Next == DetectHands \/ ProcessHand \/ FollowHeld

Spec == Init /\ [][Next]_vars

\* The grid with the raw type of every tick logged, for one tracked hand.
FlickerHands == 1
DetectLogged == Detect(FlickerHands)
ProcessLogged == Process(TRUE)

NextFlicker == DetectLogged \/ ProcessLogged \/ FollowHeld

SpecFlicker == Init /\ [][NextFlicker]_vars

\* The grid with one tracked hand that reports world landmarks and turns over.
ProcessTurning == ProcessOf(TurningHands, FALSE)

NextTurning == DetectLogged \/ ProcessTurning \/ FollowHeld

SpecTurning == Init /\ [][NextTurning]_vars

\* The grid with one tracked hand whose world landmarks are sometimes missing.
ProcessDepthLoss == ProcessOf(DepthLossHands, FALSE)

NextDepthLoss == DetectLogged \/ ProcessDepthLoss \/ FollowHeld

SpecDepthLoss == Init /\ [][NextDepthLoss]_vars

\* The grid with two tracked hands that rotate in the image plane.
ProcessRotating == ProcessOf(RotatingHands, FALSE)

NextRotating == DetectHands \/ ProcessRotating \/ FollowHeld

SpecRotating == Init /\ [][NextRotating]_vars

\* The start button of the grid: at most MaxStarts clicks while the start
\* container is shown. A call of start() waits in startWebcam() for the
\* stream ("getUserMedia"), for the video's loadeddata event ("loadeddata",
\* delivered to the handler installed last) and for play() ("play"); then it
\* sets isRunning, hides the container, creates the objects and calls
\* animate(), which keeps one more requestAnimationFrame loop going. The
\* ticks are those of one tracked hand and run once a loop exists.
MaxStarts == 2

ClickStart ==
    /\ Len(startup.calls) < MaxStarts
    /\ ~startup.hidden
    /\ startup' = [startup EXCEPT !.calls = Append(@, IF startup.isInitialized
                                                     THEN "getUserMedia" ELSE "returned")]
    /\ UNCHANGED <<cellObjects, heldObjects, flipped, gestureHistory, prevGestures,
                   pc, handCount, hands, gesture, moves, calls, rawLog, grabSnap, probe,
                   swarm, swarmTrace, tracker, scene, protocol>>

StreamGranted ==
    /\ \E i \in DOMAIN startup.calls :
         /\ startup.calls[i] = "getUserMedia"
         /\ startup' = [startup EXCEPT !.calls[i] = "loadeddata", !.onloadeddata = i,
                                       !.loadPending = TRUE]
    /\ UNCHANGED <<cellObjects, heldObjects, flipped, gestureHistory, prevGestures,
                   pc, handCount, hands, gesture, moves, calls, rawLog, grabSnap, probe,
                   swarm, swarmTrace, tracker, scene, protocol>>

StreamDenied ==
    /\ \E i \in DOMAIN startup.calls :
         /\ startup.calls[i] = "getUserMedia"
         /\ startup' = [startup EXCEPT !.calls[i] = "failed"]
    /\ UNCHANGED <<cellObjects, heldObjects, flipped, gestureHistory, prevGestures,
                   pc, handCount, hands, gesture, moves, calls, rawLog, grabSnap, probe,
                   swarm, swarmTrace, tracker, scene, protocol>>

LoadedData ==
    /\ startup.loadPending
    /\ startup.calls[startup.onloadeddata] = "loadeddata"
    /\ startup' = [startup EXCEPT !.calls[startup.onloadeddata] = "play",
                                  !.loadPending = FALSE]
    /\ UNCHANGED <<cellObjects, heldObjects, flipped, gestureHistory, prevGestures,
                   pc, handCount, hands, gesture, moves, calls, rawLog, grabSnap, probe,
                   swarm, swarmTrace, tracker, scene, protocol>>

PlayFailed ==
    /\ \E i \in DOMAIN startup.calls :
         /\ startup.calls[i] = "play"
         /\ startup' = [startup EXCEPT !.calls[i] = "failed"]
    /\ UNCHANGED <<cellObjects, heldObjects, flipped, gestureHistory, prevGestures,
                   pc, handCount, hands, gesture, moves, calls, rawLog, grabSnap, probe,
                   swarm, swarmTrace, tracker, scene, protocol>>

\* start() from the return of startWebcam() to its end.
Played ==
    /\ \E i \in DOMAIN startup.calls :
         /\ startup.calls[i] = "play"
         /\ \E S \in {createGridObjects([cells |-> cellObjects, flipped |-> flipped],
                                        InitialCells, startup.made)} :
              /\ cellObjects' = S.cells
              /\ flipped' = S.flipped
         /\ startup' = [startup EXCEPT !.calls[i] = "started", !.isRunning = TRUE,
                                       !.hidden = TRUE,
                                       !.made = @ + Len(InitialCells),
                                       !.loops = @ + 1]
    /\ UNCHANGED <<heldObjects, gestureHistory, prevGestures,
                   pc, handCount, hands, gesture, moves, calls, rawLog, grabSnap, probe,
                   swarm, swarmTrace, tracker, scene, protocol>>

RunningDetect == startup.loops > 0 /\ DetectLogged
RunningProcess == startup.loops > 0 /\ ProcessHand
RunningFollow == startup.loops > 0 /\ FollowHeld

\* The controller after its constructor and init(), which may have failed.
InitStartup ==
    /\ cellObjects = <<>>
    /\ heldObjects = <<>>
    /\ flipped = <<>>
    /\ gestureHistory = <<>>
    /\ prevGestures = <<>>
    /\ pc = "idle"
    /\ handCount = 0
    /\ hands = <<>>
    /\ gesture = [h \in HandSlots |-> NoGesture]
    /\ moves = <<>>
    /\ calls = [h \in HandSlots |-> <<>>]
    /\ rawLog = [h \in HandSlots |-> <<>>]
    /\ grabSnap = [h \in HandSlots |-> Null]
    /\ probe = Null
    /\ NoSwarm /\ NoTracker /\ NoScene /\ NoProtocol
    /\ \E isInitialized \in BOOLEAN :
         startup = [isInitialized |-> isInitialized, calls |-> <<>>, onloadeddata |-> 0,
                    loadPending |-> FALSE, isRunning |-> FALSE, hidden |-> FALSE,
                    made |-> 0, loops |-> 0]

NextStartup ==
    \/ ClickStart \/ StreamGranted \/ StreamDenied \/ LoadedData \/ PlayFailed \/ Played
    \/ RunningDetect \/ RunningProcess \/ RunningFollow

SpecStartup == InitStartup /\ [][NextStartup]_vars

\* The grid with one tracked hand whose landmark list is sometimes too short.
ProcessMalformed == ProcessOf(MalformedHands, FALSE)

NextMalformed == DetectLogged \/ ProcessMalformed \/ FollowHeld

SpecMalformed == Init /\ [][NextMalformed]_vars

\* The Hand Magic Studio recognizer alone: any sequence of recognize() calls.
Recognize ==
    \E handIndex \in HandSlots, hand \in StudioHands :
      \E r \in {recognize([history |-> gestureHistory, prev |-> prevGestures],
                          hand, handIndex)} :
        /\ gestureHistory' = r.history
        /\ prevGestures' = r.prev
        /\ gesture' = [gesture EXCEPT ![handIndex] = r.gesture.type]
        /\ calls' = [calls EXCEPT ![handIndex] =
                        LastN(Append(@, r.prev[handIndex].type), historySize)]
        /\ UNCHANGED <<cellObjects, heldObjects, flipped, pc, handCount, hands,
                       moves, rawLog, grabSnap, probe, swarm, swarmTrace, tracker, scene, protocol, startup>>

NextRecognizer == Recognize

SpecRecognizer == Init /\ [][NextRecognizer]_vars

\* The hand tracker alone: at most MaxFrames calls of detectHands, each on the
\* frame of the call before or on a new frame with no, one or two hands.
MaxFrames == 5

RawHands ==
    {<<<<0, 0, 0>>, <<3125, 6250, -3125>>>>,
     <<<<31250, 15625, 0>>, <<9375, 9375, 9375>>>>}

RawResults ==
    {<<>>} \cup {<<a>> : a \in RawHands} \cup {<<a, b>> : a \in RawHands, b \in RawHands}

Outcomes ==
    [threw : {TRUE}, landmarks : {<<>>}] \cup [threw : {FALSE}, landmarks : RawResults]

DetectFrame ==
    /\ tracker.frames < MaxFrames
    /\ \E ready \in BOOLEAN,
          currentTime \in {t \in {tracker.lastVideoTime, tracker.lastVideoTime + 1} : t >= 0},
          outcome \in Outcomes :
         \E r \in {detectHands([prevLandmarks |-> tracker.prevLandmarks,
                                lastResult |-> tracker.lastResult,
                                lastVideoTime |-> tracker.lastVideoTime],
                               ready, currentTime, outcome)} :
           tracker' = [prevLandmarks |-> r.tracker.prevLandmarks,
                       lastResult |-> r.tracker.lastResult,
                       lastVideoTime |-> r.tracker.lastVideoTime,
                       returned |-> r.returned,
                       detected |-> IF ready /\ currentTime # tracker.lastVideoTime
                                       /\ ~outcome.threw
                                    THEN Some(outcome.landmarks) ELSE Null,
                       outputs |-> IF ready /\ currentTime # tracker.lastVideoTime
                                      /\ ~outcome.threw
                                   THEN [h \in DOMAIN tracker.outputs
                                               \cup 0 .. (Len(outcome.landmarks) - 1) |->
                                           IF h < Len(outcome.landmarks)
                                           THEN Val(r.returned)[h + 1].landmarks
                                           ELSE tracker.outputs[h]]
                                   ELSE tracker.outputs,
                       before |-> IF tracker.detected # Null THEN tracker.detected
                                  ELSE tracker.before,
                       frames |-> tracker.frames + 1]
    /\ UNCHANGED <<cellObjects, heldObjects, flipped, gestureHistory, prevGestures,
                   pc, handCount, hands, gesture, moves, calls, rawLog, grabSnap, probe,
                   swarm, swarmTrace, scene, protocol, startup>>

InitTracker ==
    /\ Start
    /\ probe = Null
    /\ NoSwarm /\ NoScene /\ NoProtocol /\ NoStartup
    /\ tracker = [prevLandmarks |-> <<>>, lastResult |-> Null, lastVideoTime |-> -1,
                  returned |-> Null, detected |-> Null, outputs |-> <<>>,
                  before |-> Null, frames |-> 0]

NextTracker == DetectFrame

SpecTracker == InitTracker /\ [][NextTracker]_vars

\* The 3D scene: at most MaxDetections runs of predictWebcam interleaved with
\* at most MaxSceneFrames rendered frames.
MaxDetections == 3
MaxSceneFrames == 5

\* pinch distances below, on, between, on and above the two thresholds
PinchDistances == {50, 60, 90, 120, 130}
\* pinch centres: two within the interaction radius of the cube's first
\* position, one far outside it
PinchCenters == {<<50, 0, 0>>, <<0, 100, 50>>, <<400, 0, 0>>}

FirstHands == [pinchDistance : PinchDistances, pinchCenter : PinchCenters]
SecondHands == [pinchDistance : {50, 130}, pinchCenter : {<<-300, 0, 0>>}]

SceneResults ==
    {<<>>} \cup {<<a>> : a \in FirstHands}
           \cup {<<a, b>> : a \in FirstHands, b \in SecondHands}

SceneState ==
    [handsResult |-> scene.handsResult, isPinching |-> scene.isPinching,
     handData |-> scene.handData, cube |-> scene.cube,
     isGrabbing |-> scene.isGrabbing, grabOffset |-> scene.grabOffset]

InstallScene(S, last, detected, detections, frames) ==
    scene' = [handsResult |-> S.handsResult, isPinching |-> S.isPinching,
              handData |-> S.handData, cube |-> S.cube,
              isGrabbing |-> S.isGrabbing, grabOffset |-> S.grabOffset,
              last |-> last, detected |-> detected,
              detections |-> detections, frames |-> frames]

PredictWebcam ==
    /\ scene.detections < MaxDetections
    /\ \E ready \in BOOLEAN, newFrame \in BOOLEAN, result \in SceneResults :
         InstallScene(predictWebcam(SceneState, ready, newFrame, result), "predictWebcam",
                      IF ready /\ newFrame THEN Len(result) ELSE scene.detected,
                      scene.detections + 1, scene.frames)
    /\ UNCHANGED <<cellObjects, heldObjects, flipped, gestureHistory, prevGestures,
                   pc, handCount, hands, gesture, moves, calls, rawLog, grabSnap, probe,
                   swarm, swarmTrace, tracker, protocol, startup>>

RenderFrame ==
    /\ scene.frames < MaxSceneFrames
    /\ InstallScene(sceneFrame(SceneState), "frame", scene.detected,
                    scene.detections, scene.frames + 1)
    /\ UNCHANGED <<cellObjects, heldObjects, flipped, gestureHistory, prevGestures,
                   pc, handCount, hands, gesture, moves, calls, rawLog, grabSnap, probe,
                   swarm, swarmTrace, tracker, protocol, startup>>

InitScene ==
    /\ Start
    /\ probe = Null
    /\ NoSwarm /\ NoTracker /\ NoProtocol /\ NoStartup
    /\ scene = [handsResult |-> Null, isPinching |-> <<>>, handData |-> Null,
                cube |-> <<0, 0, 0>>, isGrabbing |-> FALSE, grabOffset |-> <<0, 0, 0>>,
                last |-> "init", detected |-> -1, detections |-> 0, frames |-> 0]

NextScene == PredictWebcam \/ RenderFrame

SpecScene == InitScene /\ [][NextScene]_vars

\* The grid with the experiment protocol, one tracked hand, experiment mode
\* on or off from the start.
\* palm centres over the cells 6, 3, 7 and 4
ProtocolPalms == {<<90, 90>>, <<90, 50>>, <<50, 90>>, <<50, 50>>}

ProtocolHands ==
    [count : {LANDMARK_COUNT}, fingers : {FIST_FINGERS, OPEN_FINGERS},
     palm : ProtocolPalms, world : {Null}, angle : {0}, pinch : {20}]

AnimateProtocolOf(detectable) ==
    /\ \E detected \in {<<>>} \cup {<<hand>> : hand \in detectable} :
       \E r \in {animateProtocol(State, [protocolState |-> protocol.protocolState,
                                         experimentMode |-> protocol.experimentMode],
                                 detected)} :
         /\ Install(r.state)
         /\ gesture' = [gesture EXCEPT ![0] = r.gesture]
         /\ protocol' = [protocolState |-> r.protocol.protocolState,
                         experimentMode |-> r.protocol.experimentMode,
                         drop |-> r.drop]
    /\ UNCHANGED <<pc, handCount, hands, moves, calls, rawLog, grabSnap, probe,
                   swarm, swarmTrace, tracker, scene, startup>>

AnimateProtocol == AnimateProtocolOf(ProtocolHands)

InitProtocol ==
    /\ cellObjects = [c \in {initialCell(el) : el \in DOMAIN protocolCells} |->
                         <<CHOOSE el \in DOMAIN protocolCells : initialCell(el) = c>>]
    /\ heldObjects = <<>>
    /\ flipped = [el \in DOMAIN protocolCells |-> FALSE]
    /\ gestureHistory = <<>>
    /\ prevGestures = <<>>
    /\ pc = "idle"
    /\ handCount = 0
    /\ hands = <<>>
    /\ gesture = [h \in HandSlots |-> NoGesture]
    /\ moves = <<>>
    /\ calls = [h \in HandSlots |-> <<>>]
    /\ rawLog = [h \in HandSlots |-> <<>>]
    /\ grabSnap = [h \in HandSlots |-> Null]
    /\ probe = Null
    /\ NoSwarm /\ NoTracker /\ NoScene /\ NoStartup
    /\ \E experimentMode \in BOOLEAN :
         protocol = [protocolState |-> IF experimentMode THEN "Phase1_Step1" ELSE "none",
                     experimentMode |-> experimentMode, drop |-> Null]

NextProtocol == AnimateProtocol

SpecProtocol == InitProtocol /\ [][NextProtocol]_vars

\* The same with the palm over any cell of the two lower rows, so that every
\* move of the protocol can be made.
\* palm centres over the cells 3, 4, 5, 6, 7 and 8
ProtocolRunPalms == {<<x, y>> : x \in {90, 50, 10}, y \in {50, 90}}

ProtocolRunHands ==
    [count : {LANDMARK_COUNT}, fingers : {FIST_FINGERS, OPEN_FINGERS},
     palm : ProtocolRunPalms, world : {Null}, angle : {0}, pinch : {20}]

AnimateProtocolRun == AnimateProtocolOf(ProtocolRunHands)

NextProtocolRun == AnimateProtocolRun

SpecProtocolRun == InitProtocol /\ [][NextProtocolRun]_vars

\* The two raw classifiers applied to every combination of finger flags, pinch
\* distance and previous raw type of the slot.
AllFingers == [1 .. 5 -> BOOLEAN]

ClassifyInputs ==
    [fn : {"classifyGesture"}, fingers : AllFingers, pinch : StudioPinches,
     wasPinching : BOOLEAN, out : {Null}]
    \cup [fn : {"gridClassifyGesture"}, fingers : AllFingers, out : {Null}]

handOf(fingers, pinch) ==
    [count |-> LANDMARK_COUNT, fingers |-> fingers, palm |-> <<50, 50>>,
     world |-> Null, angle |-> 0, pinch |-> pinch]

ClassifyStudio ==
    /\ probe.fn = "classifyGesture"
    /\ probe.out = Null
    /\ LET hand == handOf(probe.fingers, probe.pinch)
           R == [history |-> gestureHistory,
                 prev |-> IF probe.wasPinching
                          THEN Put(prevGestures, 0, [type |-> "PINCH", confidence |-> 90])
                          ELSE prevGestures]
       IN probe' = [probe EXCEPT !.out =
                       Some(classifyGesture(R, getFingerStates(hand),
                                            getPinchDistance(hand), 0).type)]
    /\ UNCHANGED <<cellObjects, heldObjects, flipped, gestureHistory, prevGestures,
                   pc, handCount, hands, gesture, moves, calls, rawLog, grabSnap,
                   swarm, swarmTrace, tracker, scene, protocol, startup>>

ClassifyGrid ==
    /\ probe.fn = "gridClassifyGesture"
    /\ probe.out = Null
    /\ probe' = [probe EXCEPT !.out =
                    Some(gridClassifyGesture(getFingerStates(handOf(probe.fingers, 0))).type)]
    /\ UNCHANGED <<cellObjects, heldObjects, flipped, gestureHistory, prevGestures,
                   pc, handCount, hands, gesture, moves, calls, rawLog, grabSnap,
                   swarm, swarmTrace, tracker, scene, protocol, startup>>

InitClassify == Start /\ probe \in ClassifyInputs /\ NoSwarm /\ NoTracker /\ NoScene /\ NoProtocol /\ NoStartup

NextClassify == ClassifyStudio \/ ClassifyGrid

SpecClassify == InitClassify /\ [][NextClassify]_vars

\* getCellIndex applied to normalized coordinates inside, on and outside the
\* edges of the image (hundredths).
CellCoords == {-50, -1, 0, 1, 10, 33, 34, 50, 66, 67, 90, 99, 100, 101, 150}

CellInputs == [fn : {"getCellIndex"}, x : CellCoords, y : CellCoords, out : {Null}]

ApplyGetCellIndex ==
    /\ probe.fn = "getCellIndex"
    /\ probe.out = Null
    /\ probe' = [probe EXCEPT !.out = Some(getCellIndex(probe.x, probe.y))]
    /\ UNCHANGED <<cellObjects, heldObjects, flipped, gestureHistory, prevGestures,
                   pc, handCount, hands, gesture, moves, calls, rawLog, grabSnap,
                   swarm, swarmTrace, tracker, scene, protocol, startup>>

InitCell == Start /\ probe \in CellInputs /\ NoSwarm /\ NoTracker /\ NoScene /\ NoProtocol /\ NoStartup

NextCell == ApplyGetCellIndex

SpecCell == InitCell /\ [][NextCell]_vars

\* The particle field driven through its methods: any sequence of at most
\* MaxCalls calls of gather, scatter and updateGatherCenter among at most
\* MaxUpdates frames.
MaxUpdates == 50
MaxCalls == 2
FrameMillis == 16

ScatterLayouts ==
    {[i \in Particles |-> <<4000 * i - 4000, 3000, -2000>>],
     [i \in Particles |-> <<-5000, 6000 - 3000 * i, 4000>>]}
Centers == {<<0, 0, 0>>, <<3000, -2000, 1000>>}
Jitters ==
    {[i \in Particles |-> <<5000, -5000, 2500>>],
     [i \in Particles |-> <<3000 * i - 4000, 2000, -1000 * i>>]}

Called(name, center) ==
    swarmTrace' = [swarmTrace EXCEPT !.last = name, !.lastCall = name,
                                     !.center = center, !.calls = @ + 1]

Gather ==
    /\ swarmTrace.calls < MaxCalls
    /\ \E center \in Centers :
         /\ swarm' = gather(swarm, center)
         /\ Called("gather", center)
    /\ UNCHANGED <<cellObjects, heldObjects, flipped, gestureHistory, prevGestures,
                   pc, handCount, hands, gesture, moves, calls, rawLog, grabSnap, probe,
                   tracker, scene, protocol, startup>>

Scatter ==
    /\ swarmTrace.calls < MaxCalls
    /\ \E jitter \in Jitters : swarm' = scatter(swarm, jitter)
    /\ Called("scatter", swarmTrace.center)
    /\ UNCHANGED <<cellObjects, heldObjects, flipped, gestureHistory, prevGestures,
                   pc, handCount, hands, gesture, moves, calls, rawLog, grabSnap, probe,
                   tracker, scene, protocol, startup>>

UpdateGatherCenter ==
    /\ swarmTrace.calls < MaxCalls
    /\ \E center \in Centers :
         /\ swarm' = updateGatherCenter(swarm, center)
         /\ Called("updateGatherCenter", center)
    /\ UNCHANGED <<cellObjects, heldObjects, flipped, gestureHistory, prevGestures,
                   pc, handCount, hands, gesture, moves, calls, rawLog, grabSnap, probe,
                   tracker, scene, protocol, startup>>

Update ==
    /\ swarmTrace.updates < MaxUpdates
    /\ swarm' = update(swarm, swarmTrace.updates * FrameMillis)
    /\ swarmTrace' = [swarmTrace EXCEPT !.last = "update", !.updates = @ + 1]
    /\ UNCHANGED <<cellObjects, heldObjects, flipped, gestureHistory, prevGestures,
                   pc, handCount, hands, gesture, moves, calls, rawLog, grabSnap, probe,
                   tracker, scene, protocol, startup>>

InitSwarm ==
    /\ Start
    /\ NoTracker /\ NoScene /\ NoProtocol /\ NoStartup
    /\ probe = Null
    /\ swarm \in {init(layout) : layout \in ScatterLayouts}
    /\ swarmTrace = [last |-> "init", lastCall |-> "init", center |-> <<0, 0, 0>>,
                     updates |-> 0, calls |-> 0]

NextSwarm == Gather \/ Scatter \/ UpdateGatherCenter \/ Update

SpecSwarm == InitSwarm /\ [][NextSwarm]_vars

\* The particle field with a frame loop that never stops: update() runs in
\* every animation frame, among at most MaxCalls calls of gather, scatter and
\* updateGatherCenter with the centre the field already has. Date.now() is
\* read in the scattered mode only, and the clock stops after
\* MaxScatterUpdates scattered frames.
MaxScatterUpdates == 2

KeepGatherCenter ==
    /\ swarmTrace.calls < MaxCalls
    /\ swarm' = updateGatherCenter(swarm, swarm.targetCenter)
    /\ Called("updateGatherCenter", swarm.targetCenter)
    /\ UNCHANGED <<cellObjects, heldObjects, flipped, gestureHistory, prevGestures,
                   pc, handCount, hands, gesture, moves, calls, rawLog, grabSnap, probe,
                   tracker, scene, protocol, startup>>

UpdateForever ==
    /\ swarm.state # "scattered" \/ swarmTrace.updates < MaxScatterUpdates
    /\ swarm' = update(swarm, swarmTrace.updates * FrameMillis)
    /\ swarmTrace' = [swarmTrace EXCEPT !.last = "update",
                                        !.updates = IF swarm.state = "scattered"
                                                    THEN @ + 1 ELSE @]
    /\ UNCHANGED <<cellObjects, heldObjects, flipped, gestureHistory, prevGestures,
                   pc, handCount, hands, gesture, moves, calls, rawLog, grabSnap, probe,
                   tracker, scene, protocol, startup>>

NextGathering == Gather \/ Scatter \/ KeepGatherCenter \/ UpdateForever

\* ENABLED <<UpdateForever>>_vars: the frame may run and changes something.
UpdateForeverEnabled ==
    /\ swarm.state # "scattered" \/ swarmTrace.updates < MaxScatterUpdates
    /\ \/ swarmTrace.last # "update"
       \/ swarm.state = "scattered"
       \/ update(swarm, swarmTrace.updates * FrameMillis) # swarm

\* requestAnimationFrame keeps calling animate(), and with it update(): weak
\* fairness of UpdateForever, with its enabling condition written out.
FrameLoopRuns == []<>(~UpdateForeverEnabled) \/ []<><<UpdateForever>>_vars

SpecGathering == InitSwarm /\ [][NextGathering]_vars /\ FrameLoopRuns

\* The studio frame loop: every frame detects no hand or one hand; the hand
\* changes (appears, moves, changes shape, disappears) at most MaxCalls times
\* within at most MaxUpdates frames.
SwarmPalms == {<<50, 50, 0>>, <<30, 60, -5>>}

\* a fist at either palm position, an open hand and a peace sign
SwarmHands ==
    [count : {LANDMARK_COUNT}, fingers : {FIST_FINGERS}, palm : SwarmPalms,
     world : {Null}, angle : {0}, pinch : {20}]
      \cup [count : {LANDMARK_COUNT}, fingers : {OPEN_FINGERS, PEACE_FINGERS},
            palm : {<<50, 50, 0>>}, world : {Null}, angle : {0}, pinch : {20}]

Detections == {<<>>} \cup {<<hand>> : hand \in SwarmHands}

Animate ==
    /\ swarmTrace.updates < MaxUpdates
    /\ \E detected \in Detections, jitter \in Jitters :
         /\ detected = swarmTrace.input \/ swarmTrace.calls < MaxCalls
         /\ \E r \in {animate(swarm, [history |-> gestureHistory, prev |-> prevGestures],
                              detected, jitter, swarmTrace.updates * FrameMillis)} :
              /\ swarm' = r.field
              /\ gestureHistory' = r.recognizer.history
              /\ prevGestures' = r.recognizer.prev
              /\ gesture' = [gesture EXCEPT ![0] = r.gesture]
              /\ swarmTrace' = [last |-> "animate", lastCall |-> r.method,
                                center |-> r.center,
                                updates |-> swarmTrace.updates + 1,
                                calls |-> IF detected = swarmTrace.input
                                          THEN swarmTrace.calls ELSE swarmTrace.calls + 1,
                                input |-> detected, from |-> swarm.state]
    /\ UNCHANGED <<cellObjects, heldObjects, flipped, pc, handCount, hands,
                   moves, calls, rawLog, grabSnap, probe,
                   tracker, scene, protocol, startup>>

InitStudio ==
    /\ Start
    /\ NoTracker /\ NoScene /\ NoProtocol /\ NoStartup
    /\ probe = Null
    /\ swarm \in {init(layout) : layout \in ScatterLayouts}
    /\ swarmTrace = [last |-> "init", lastCall |-> "init", center |-> <<0, 0, 0>>,
                     updates |-> 0, calls |-> 0, input |-> <<>>, from |-> "scattered"]

NextStudio == Animate

SpecStudio == InitStudio /\ [][NextStudio]_vars


-----------------------------------------------------------------------------
(* Properties of the grid *)

\* The places of element e in a cell store, and the slots holding it.
PlacesIn(cells, e) ==
    UNION {{<<c, i>> : i \in {j \in DOMAIN cells[c] : cells[c][j] = e}} :
           c \in DOMAIN cells}
HoldersIn(held, e) == {h \in DOMAIN held : held[h].element = e}

\* A step that is one iteration of hands.forEach, for the slot Len(hands).
ProcStep == pc = "hands" /\ Len(hands') = Len(hands) + 1
Slot == Len(hands)
PalmCell == getCellIndex(hands'[Slot + 1].palm[1], hands'[Slot + 1].palm[2])
Grabbed == Slot \notin DOMAIN heldObjects /\ Slot \in DOMAIN heldObjects'
Dropped == Slot \in DOMAIN heldObjects /\ Slot \notin DOMAIN heldObjects'
Occupied(c) == c \in DOMAIN cellObjects /\ Len(cellObjects[c]) > 0

(* C1: exclusivity. In every reachable state every hand slot holds at most
   one entity (the entities outside all cells are no more than the slots that
   hold one) and every entity is held by at most one hand slot. *)
Exclusivity ==
    /\ DOMAIN heldObjects \subseteq HandSlots
    /\ \A e \in Elements : Cardinality(HoldersIn(heldObjects, e)) <= 1
    /\ Cardinality({e \in Elements : PlacesIn(cellObjects, e) = {}})
          <= Cardinality(DOMAIN heldObjects)

\* Both slots hold an entity.
BothSlotsHolding == DOMAIN heldObjects = HandSlots

(* C2: placement partition. At every tick boundary each entity created at
   scene setup is in exactly one place: one position of one cell 0..8 and held
   by nobody, or held by one slot and in no cell; the cells hold nothing else. *)
PlacementPartition ==
    pc = "idle" =>
        /\ DOMAIN cellObjects \subseteq 0 .. (gridCols * gridRows - 1)
        /\ \A c \in DOMAIN cellObjects :
             \A i \in DOMAIN cellObjects[c] : cellObjects[c][i] \in Elements
        /\ \A h \in DOMAIN heldObjects : heldObjects[h].element \in Elements
        /\ \A e \in Elements :
             Cardinality(PlacesIn(cellObjects, e))
               + Cardinality(HoldersIn(heldObjects, e)) = 1

\* A tick boundary after grabs and a drop: slot 1 holds the entity of cell 0,
\* and the entity of cell 4 has been moved into cell 0.
PartitionAfterMoves ==
    /\ pc = "idle"
    /\ 1 \in DOMAIN heldObjects /\ heldObjects[1].element = 1
    /\ 0 \in DOMAIN cellObjects /\ cellObjects[0] = <<2>>

(* C3: guard failure is a no-op. A FIST over an empty cell or over no cell,
   a FIST by a HOLDING hand, an OPEN by an EMPTY hand and an OPEN by a HOLDING
   hand over no valid cell leave the cell store and the ownership map as they
   were. *)
GuardFailureNoOp ==
    [][ProcStep =>
        LET type == gesture'[Slot]
            holding == Slot \in DOMAIN heldObjects
            fails == \/ type = "FIST" /\ ~Occupied(PalmCell)
                     \/ type = "FIST" /\ holding
                     \/ type = "OPEN" /\ ~holding
                     \/ type = "OPEN" /\ holding
                          /\ PalmCell \notin 0 .. (gridCols * gridRows - 1)
        IN fails => cellObjects' = cellObjects /\ heldObjects' = heldObjects]_vars

\* A HOLDING hand has just emitted FIST over a cell that holds an entity.
FistWhileHolding ==
    \E i \in DOMAIN hands :
        /\ gesture[i - 1] = "FIST"
        /\ moves[i].kind = "none"
        /\ (i - 1) \in DOMAIN heldObjects
        /\ Occupied(getCellIndex(hands[i].palm[1], hands[i].palm[2]))

(* C4: cells are stacks. A grab takes the last element of the cell's
   collection, keeps the rest in order and removes the entry of a cell that
   becomes empty; a drop appends the element, which is then the last one. In
   both cases every other cell is untouched. *)
CellsAreStacks ==
    [][ProcStep =>
        LET c == PalmCell
            others == \A d \in (DOMAIN cellObjects \cup DOMAIN cellObjects') \ {c} :
                         /\ d \in DOMAIN cellObjects /\ d \in DOMAIN cellObjects'
                         /\ cellObjects'[d] = cellObjects[d]
        IN /\ Grabbed =>
                /\ Occupied(c)
                /\ heldObjects'[Slot].element = cellObjects[c][Len(cellObjects[c])]
                /\ IF Len(cellObjects[c]) = 1 THEN c \notin DOMAIN cellObjects'
                   ELSE /\ c \in DOMAIN cellObjects'
                        /\ cellObjects'[c] =
                              SubSeq(cellObjects[c], 1, Len(cellObjects[c]) - 1)
                /\ others
           /\ Dropped =>
                /\ c \in DOMAIN cellObjects'
                /\ cellObjects'[c] =
                      (IF c \in DOMAIN cellObjects THEN cellObjects[c] ELSE <<>>)
                        \o <<heldObjects[Slot].element>>
                /\ others]_vars

\* A grab has just taken the top of a cell that still holds another entity.
GrabFromPile ==
    \E i \in DOMAIN moves :
        /\ moves[i].kind = "grab"
        /\ moves[i].from \in DOMAIN cellObjects
        /\ (i - 1) \in DOMAIN heldObjects

(* C5: round trip. A drop into the cell the hand grabbed from, with no
   grab or drop of any hand since that grab, restores the cell store and the
   ownership map of the moment before the grab. *)
RoundTrip ==
    [][(ProcStep /\ Dropped /\ grabSnap[Slot] # Null
                 /\ PalmCell = heldObjects[Slot].fromCellIndex) =>
            /\ cellObjects' = Val(grabSnap[Slot]).cells
            /\ Owners(heldObjects') = Val(grabSnap[Slot]).owners]_vars

\* A hand has just put its entity back on the pile of two it took it from.
RoundTripDone ==
    \E i \in DOMAIN moves :
        /\ i = Len(moves)
        /\ moves[i].kind = "drop"
        /\ moves[i].clean
        /\ moves[i].from = getCellIndex(hands[i].palm[1], hands[i].palm[2])
        /\ moves[i].from \in DOMAIN cellObjects
        /\ Len(cellObjects[moves[i].from]) = 2

(* C6 as stated: transitions are edge-triggered. A grab happens only in a
   tick in which the emitted type changed to FIST, a drop only in a tick in
   which it changed to OPEN, and a hand that keeps its emitted type causes
   neither. *)
EdgeTriggered ==
    [][ProcStep =>
        /\ Grabbed => gesture'[Slot] = "FIST" /\ gesture[Slot] # "FIST"
        /\ Dropped => gesture'[Slot] = "OPEN" /\ gesture[Slot] # "OPEN"
        /\ gesture'[Slot] = gesture[Slot] => ~Grabbed /\ ~Dropped]_vars

(* C6 amended: transitions are level-triggered. A grab happens only in a tick
   in which the slot emits FIST and a drop only in one in which it emits OPEN,
   whether or not the type changed: an EMPTY hand emitting FIST over a cell
   that holds an entity grabs, a HOLDING hand emitting OPEN over a valid cell
   drops, and any other emitted type causes neither. *)
LevelTriggered ==
    [][ProcStep =>
        /\ Grabbed => gesture'[Slot] = "FIST"
        /\ Dropped => gesture'[Slot] = "OPEN"
        /\ (gesture'[Slot] = "FIST" /\ Slot \notin DOMAIN heldObjects
              /\ Occupied(PalmCell)) => Grabbed
        /\ (gesture'[Slot] = "OPEN" /\ Slot \in DOMAIN heldObjects
              /\ PalmCell \in 0 .. (gridCols * gridRows - 1)) => Dropped]_vars

\* A grab in the third consecutive tick of raw FIST of slot 0: the emitted type
\* was FIST before this tick and is FIST in it.
GrabWithoutEdge ==
    /\ Len(moves) >= 1
    /\ moves[1].kind = "grab"
    /\ 0 \in DOMAIN gestureHistory
    /\ gestureHistory[0] = <<"FIST", "FIST", "FIST">>

(* C7: no automatic release. The entity of a HOLDING slot stays owned by
   that slot and in no cell, unless the step is the processing of that very
   slot, reported in this tick, emitting OPEN with its palm over a valid cell,
   and then the entity is on top of that cell. *)
NoAutomaticRelease ==
    [][\A s \in DOMAIN heldObjects :
        LET e == heldObjects[s].element
        IN IF s \in DOMAIN heldObjects'
           THEN /\ heldObjects'[s].element = e
                /\ PlacesIn(cellObjects', e) = {}
           ELSE /\ ProcStep /\ Slot = s /\ s < handCount
                /\ gesture'[s] = "OPEN"
                /\ PalmCell \in 0 .. (gridCols * gridRows - 1)
                /\ PalmCell \in DOMAIN cellObjects'
                /\ cellObjects'[PalmCell][Len(cellObjects'[PalmCell])] = e]_vars

\* Slot 1 holds an entity in a tick in which only slot 0 is reported.
HoldingWhileAbsent ==
    /\ pc = "follow"
    /\ handCount = 1
    /\ 1 \in DOMAIN heldObjects
    /\ PlacesIn(cellObjects, heldObjects[1].element) = {}

(* C9 as stated: single-frame flicker is suppressed. When the raw types of a
   slot in four consecutive ticks are A, A, B, A with B # A, the raw B causes
   no grab (B = FIST) and no drop (B = OPEN) of that slot in the third tick,
   the fourth tick or the tick after it. *)
FlickerSuppressed ==
    [][ProcStep =>
        LET pre == rawLog[Slot]
            log == rawLog'[Slot]
            n == Len(log)
            causes(b) == (b = "FIST" /\ Grabbed) \/ (b = "OPEN" /\ Dropped)
            third == n >= 3 /\ log[n - 2] = log[n - 1] /\ log[n] # log[n - 1]
            fourth == n = 4 /\ log[1] = log[2] /\ log[3] # log[1] /\ log[4] = log[1]
            fifth == Len(pre) = 4 /\ pre[1] = pre[2] /\ pre[3] # pre[1]
                       /\ pre[4] = pre[1] /\ log[n] # pre[3]
        IN /\ third => ~causes(log[n])
           /\ fourth => ~causes(log[3])
           /\ fifth => ~causes(pre[3])]_vars

-----------------------------------------------------------------------------
(* Properties of the recognizer *)

(* C8: hysteresis rule. The history of a slot is the last 3 raw types; the
   emitted type is the one that occurs at least 2 times in it if there is one,
   and the raw type otherwise (so X, Y, X emits X, and a history shorter than
   3 without 2 equal entries emits the raw type). *)
HysteresisRule ==
    \A s \in HandSlots :
        calls[s] # <<>> =>
            /\ s \in DOMAIN gestureHistory
            /\ gestureHistory[s] = calls[s]
            /\ LET twice == {t \in {calls[s][i] : i \in DOMAIN calls[s]} :
                               Cardinality({i \in DOMAIN calls[s] : calls[s][i] = t}) >= 2}
               IN IF twice # {} THEN gesture[s] \in twice
                  ELSE gesture[s] = calls[s][Len(calls[s])]

\* The raw sequence FIST, OPEN, FIST of slot 0 has emitted FIST.
FistOpenFist ==
    /\ calls[0] = <<"FIST", "OPEN", "FIST">>
    /\ gesture[0] = "FIST"

(* C10: hysteresis delay is bounded. When the raw type of a slot is T in two
   consecutive calls, the second call emits T, whatever the older entry of the
   history is. *)
DelayBounded ==
    \A s \in HandSlots :
        LET n == Len(calls[s])
        IN (n >= 2 /\ calls[s][n] = calls[s][n - 1]) => gesture[s] = calls[s][n]

\* Raw OPEN, FIST, FIST of slot 0: the second FIST has emitted FIST.
ChangeEmitted ==
    /\ calls[0] = <<"OPEN", "FIST", "FIST">>
    /\ gesture[0] = "FIST"

-----------------------------------------------------------------------------
(* Properties of the raw classifiers *)

Applied(fn) == probe # Null /\ probe.fn = fn /\ probe.out # Null
ExtendedCount == Cardinality({i \in 1 .. 5 : probe.fingers[i]})
PinchCondition ==
    IF probe.wasPinching THEN probe.pinch < pinchEndThreshold
    ELSE probe.pinch < pinchStartThreshold
Only(fs) == \A i \in 1 .. 5 : probe.fingers[i] <=> i \in fs

(* C11: raw classification priority. A count of 0 or 1 is FIST even with the
   pinch condition true; otherwise a true pinch condition is PINCH whatever
   fingers are extended; otherwise a count of 4 or 5 is OPEN; the grid
   classifier gives FIST for 0 or 1, OPEN for 4 or 5 and NONE for 2 or 3. *)
ClassificationPriority ==
    /\ Applied("classifyGesture") =>
         /\ ExtendedCount <= 1 => Val(probe.out) = "FIST"
         /\ (ExtendedCount >= 2 /\ PinchCondition) => Val(probe.out) = "PINCH"
         /\ (ExtendedCount >= 4 /\ ~PinchCondition) => Val(probe.out) = "OPEN"
    /\ Applied("gridClassifyGesture") =>
         Val(probe.out) = (IF ExtendedCount <= 1 THEN "FIST"
                           ELSE IF ExtendedCount >= 4 THEN "OPEN" ELSE "NONE")

\* Five extended fingers with the pinch condition true have been classified PINCH.
PinchBeatsOpen ==
    /\ Applied("classifyGesture")
    /\ ExtendedCount = 5
    /\ PinchCondition
    /\ Val(probe.out) = "PINCH"

(* C12 as stated: named shapes. With the pinch condition false, exactly the
   thumb extended is THUMBS_UP, exactly the index extended is POINTING, index
   and middle without ring and pinky is PEACE, index and pinky without middle
   and ring is ROCK. *)
NamedShapes ==
    (Applied("classifyGesture") /\ ~PinchCondition) =>
        /\ Only({1}) => Val(probe.out) = "THUMBS_UP"
        /\ Only({2}) => Val(probe.out) = "POINTING"
        /\ (probe.fingers[2] /\ probe.fingers[3] /\ ~probe.fingers[4] /\ ~probe.fingers[5])
              => Val(probe.out) = "PEACE"
        /\ (probe.fingers[2] /\ ~probe.fingers[3] /\ ~probe.fingers[4] /\ probe.fingers[5])
              => Val(probe.out) = "ROCK"

-----------------------------------------------------------------------------
(* Properties of the coordinate mapping *)

\* floor(n / 100) stated by its defining inequalities.
Bucket(n) == CHOOSE k \in -10 .. 10 : k * 100 <= n /\ n < (k + 1) * 100

(* C13: toCell mirrors x and buckets row-major. With col = floor((1 - x) * 3)
   and row = floor(y * 3) the result is row * 3 + col when both are in 0..2 and
   -1 otherwise, so it is -1 or in 0..8; toCell(1.5, 0.5) = -1. *)
MirroredRowMajor ==
    Applied("getCellIndex") =>
        LET col == Bucket((100 - probe.x) * 3)
            row == Bucket(probe.y * 3)
        IN /\ Val(probe.out) = (IF col \in 0 .. 2 /\ row \in 0 .. 2
                                THEN row * 3 + col ELSE -1)
           /\ Val(probe.out) \in {-1} \cup (0 .. 8)
           /\ (probe.x = 150 /\ probe.y = 50) => Val(probe.out) = -1

\* toCell(0.9, 0.1) has returned 0.
TopLeftCell ==
    /\ Applied("getCellIndex")
    /\ probe.x = 90 /\ probe.y = 10
    /\ Val(probe.out) = 0

(* C14 as stated: toCell returns -1 exactly when x or y lies outside [0,1). *)
HalfOpenBothAxes ==
    Applied("getCellIndex") =>
        (Val(probe.out) = -1 <=>
            ~(0 <= probe.x /\ probe.x < 100 /\ 0 <= probe.y /\ probe.y < 100))

(* C14 amended: toCell returns -1 exactly when x lies outside (0,1] or y lies
   outside [0,1): the mirroring turns the half-open interval of x around, so
   x = 1 falls into column 0 and x = 0 gives -1, while y = 0 is row 0 and
   y = 1 gives -1. *)
HalfOpenMirrored ==
    Applied("getCellIndex") =>
        (Val(probe.out) = -1 <=>
            ~(0 < probe.x /\ probe.x <= 100 /\ 0 <= probe.y /\ probe.y < 100))

\* toCell(1, 0) has returned cell 0.
RightEdgeIsCell ==
    /\ Applied("getCellIndex")
    /\ probe.x = 100 /\ probe.y = 0
    /\ Val(probe.out) = 0

-----------------------------------------------------------------------------
(* Properties of the particle field *)

\* The target update() steers particle i to in a frame that ends with inertia
\* velocity v: its target less 0.3 * 1.5 * v (the targets of a gathered field
\* lie at sphereRadius from the centre, so the delay factor is 1.5).
Steered(F, v, i) ==
    subVectors(F.targetPositions[i], multiplyScalar(v, 450, 1000 * VelocityUnit))
Within(a, b, eps) == lengthSq(subVectors(a, b)) <= eps * eps

(* C15: swarm mode transitions. gather() sets GATHERING; update() leaves the
   mode alone except that it moves GATHERING to GATHERED, and only in a frame
   in which every particle is within epsilon of the target it is steered to in
   that frame; scatter() sets SCATTERED from any mode; updateGatherCenter keeps
   the mode; SCATTERED is never followed by GATHERED directly. *)
ModeTransitions ==
    [][LET call == swarmTrace'.last
           before == swarm.state
           after == swarm'.state
       IN /\ call = "gather" => after = "gathering"
          /\ call = "scatter" => after = "scattered"
          /\ call = "updateGatherCenter" => after = before
          /\ call = "update" =>
               \/ after = before
               \/ /\ before = "gathering" /\ after = "gathered"
                  /\ \A i \in Particles :
                        Within(swarm.positions[i], Steered(swarm, swarm'.velocity, i),
                               reachedDistance)
          /\ before = "scattered" => after # "gathered"]_vars

\* scatter() has just set SCATTERED while a particle is still far from the
\* sphere target it was gathering to.
ScatteredAtOnce ==
    /\ swarm.state = "scattered"
    /\ swarmTrace.last = "scatter"
    /\ swarmTrace.calls = 2
    /\ \E i \in Particles :
          ~Within(swarm.positions[i],
                  addVectors(swarmTrace.center, goldenSphere[i + 1]), 10 * reachedDistance)

(* C17 as stated: swarm convergence. After gather(c) followed only by
   update() calls, whenever the mode is GATHERED every particle is within
   epsilon of a point of the sphere of radius sphereRadius centred at c, that
   is, its distance from c is between sphereRadius - epsilon and
   sphereRadius + epsilon. *)
SphereConvergence ==
    (swarm.state = "gathered" /\ swarmTrace.lastCall = "gather") =>
        \A i \in Particles :
            LET distSq == lengthSq(subVectors(swarm.positions[i], swarmTrace.center))
            IN /\ (sphereRadius - reachedDistance) * (sphereRadius - reachedDistance) <= distSq
               /\ distSq <= (sphereRadius + reachedDistance) * (sphereRadius + reachedDistance)

(* C18: frame effect of updateGatherCenter(newCenter). In GATHERING or
   GATHERED every target moves by newCenter minus the old target centre and the
   target centre becomes newCenter, so every target keeps its offset from the
   centre; in SCATTERED targets, target centre, inertia velocity and mode are
   unchanged. *)
CenterShift ==
    [][swarmTrace'.last = "updateGatherCenter" =>
        LET newCenter == swarmTrace'.center
            delta == subVectors(newCenter, swarm.targetCenter)
        IN IF swarm.state \in {"gathering", "gathered"}
           THEN /\ swarm'.targetCenter = newCenter
                /\ \A i \in Particles :
                     /\ swarm'.targetPositions[i] = addVectors(swarm.targetPositions[i], delta)
                     /\ subVectors(swarm'.targetPositions[i], swarm'.targetCenter)
                          = subVectors(swarm.targetPositions[i], swarm.targetCenter)
           ELSE /\ swarm'.targetPositions = swarm.targetPositions
                /\ swarm'.targetCenter = swarm.targetCenter
                /\ swarm'.velocity = swarm.velocity
                /\ swarm'.state = swarm.state]_vars

\* updateGatherCenter has just moved the centre of a gathered field.
CenterMoved ==
    /\ swarmTrace.last = "updateGatherCenter"
    /\ swarm.state = "gathered"
    /\ swarm.targetCenter = <<3000, -2000, 1000>>
    /\ swarm.velocity[1] # 0


\* C16: a frame in which no hand is detected ends with the field in the
\* scattered mode, whatever mode it was in before the frame.
ScatteredWithoutHands ==
    (swarmTrace.last = "animate" /\ swarmTrace.input = <<>>) => swarm.state = "scattered"

HandLostWhileGathered ==
    /\ swarmTrace.last = "animate"
    /\ swarmTrace.input = <<>>
    /\ swarmTrace.from = "gathered"
    /\ swarm.state = "scattered"


(* C19: slot order. Within a tick the hands are processed in slot order, so
   slot 0's grab or drop is applied before slot 1 is looked at; when both slots
   begin the tick empty, both emit FIST and both palms are over the same cell,
   slot 0 takes the top entity of the cell and slot 1 the one below it, or
   nothing when the cell held a single entity (or none). *)
SlotOrder ==
    /\ [](pc = "follow" /\ Len(moves) = 2
              /\ moves[1].kind = "grab" /\ moves[2].kind = "grab"
          => /\ grabSnap[0] = Null /\ grabSnap[1] # Null
             /\ 0 \in DOMAIN Val(grabSnap[1]).owners
             /\ \A c \in DOMAIN Val(grabSnap[1]).cells :
                  \A i \in DOMAIN Val(grabSnap[1]).cells[c] :
                    Val(grabSnap[1]).cells[c][i] # heldObjects[0].element)
    /\ [][(ProcStep /\ Slot = 1 /\ 1 \notin DOMAIN heldObjects
               /\ moves[1].kind # "drop"
               /\ (0 \in DOMAIN heldObjects => moves[1].kind = "grab")
               /\ gesture[0] = "FIST" /\ gesture'[1] = "FIST"
               /\ PalmCell >= 0
               /\ PalmCell = getCellIndex(hands[1].palm[1], hands[1].palm[2]))
          => LET atStart == IF moves[1].kind = "grab" THEN Val(grabSnap[0]).cells
                            ELSE cellObjects
                 pile == IF PalmCell \in DOMAIN atStart THEN atStart[PalmCell] ELSE <<>>
                 n == Len(pile)
             IN /\ Len(moves) = Slot
                /\ n >= 1 => /\ 0 \in DOMAIN heldObjects'
                             /\ heldObjects'[0].element = pile[n]
                /\ n >= 2 => /\ 1 \in DOMAIN heldObjects'
                             /\ heldObjects'[1].element = pile[n - 1]
                /\ n <= 1 => 1 \notin DOMAIN heldObjects'
                /\ n = 0 => 0 \notin DOMAIN heldObjects'
                /\ n >= 3 => cellObjects'[PalmCell] = SubSeq(pile, 1, n - 2)
                /\ n <= 2 => PalmCell \notin DOMAIN cellObjects']_vars

\* Both slots grabbed from the same pile of two in one tick: when slot 1
\* grabbed, slot 0 was already holding and one entity was left in the cell.
BothGrabbedFromPile ==
    /\ pc = "follow"
    /\ Len(moves) = 2
    /\ moves[1].kind = "grab" /\ moves[2].kind = "grab"
    /\ moves[1].from = moves[2].from
    /\ grabSnap[1] # Null
    /\ 0 \in DOMAIN Val(grabSnap[1]).owners
    /\ Val(grabSnap[1]).cells[moves[2].from] = <<heldObjects[1].element>>
    /\ DOMAIN heldObjects = HandSlots


\* The step that ends a tick: the follow loop over the held entities.
FollowStep == pc = "follow" /\ pc' = "idle"

(* C20: orientation on the normal-z path. After every tick in which a holding
   hand is reported with world landmarks, and whose grab recorded a palm
   normal, the flip state shown for the held entity is
   (currentNormalZ * grabNormalZ < 0) XOR the flip state shown at grab; so a
   hand that is (again) on the side it grabbed with shows the flip state of the
   grab, and a product of zero counts as not flipped. The flip state recorded
   at a grab is the one the entity shows at that moment. *)
NormalFlip ==
    /\ [][FollowStep =>
            \A h \in DOMAIN heldObjects' :
              (h < Len(hands) /\ hands[h + 1].world # Null
                   /\ heldObjects'[h].grabNormalZ # Null)
              => LET held == heldObjects'[h]
                     product == Val(hands[h + 1].world) * Val(held.grabNormalZ)
                 IN /\ flipped'[held.element] = ((product < 0) # held.grabWasBack)
                    /\ held.isBack = flipped'[held.element]
                    /\ product >= 0 => flipped'[held.element] = held.grabWasBack]_vars
    /\ [][(ProcStep /\ Grabbed)
            => heldObjects'[Slot].grabWasBack = flipped[heldObjects'[Slot].element]]_vars

\* An entity that was grabbed while shown flipped is shown unflipped, because
\* the hand has turned over since that grab.
TurnedBackToFront ==
    /\ pc = "idle"
    /\ \E h \in DOMAIN heldObjects :
         /\ heldObjects[h].grabNormalZ # Null
         /\ heldObjects[h].grabWasBack
         /\ ~heldObjects[h].isBack
         /\ ~flipped[heldObjects[h].element]


(* C21: missing depth data. After every tick in which a holding hand is
   reported without world landmarks, the flip state shown for the held entity
   is the angle fallback: (the palm angle differs from the grab angle by more
   than pi/6) XOR the flip state shown at grab, whether or not the grab
   recorded a palm normal. *)
AngleFallback ==
    [][FollowStep =>
         \A h \in DOMAIN heldObjects' :
           (h < Len(hands) /\ hands[h + 1].world = Null)
           => LET held == heldObjects'[h]
                  handRotated == abs(wrapAngle(getPalmAngle(hands[h + 1])
                                                 - held.grabAngle)) > 30
              IN flipped'[held.element] = (handRotated # held.grabWasBack)]_vars


(* C22: malformed input. recognize called with fewer than 21 landmarks returns
   type NONE with confidence 0 (in the grid and in the studio recognizer),
   leaves the slot's history and its last-gesture record as they were, and the
   tick neither grabs nor drops for that hand; the follow loop that ends the
   tick leaves the recognizer alone as well. *)
MalformedIsInert ==
    /\ [][(ProcStep /\ hands'[Slot + 1].count < LANDMARK_COUNT)
            => LET R == [history |-> gestureHistory, prev |-> prevGestures]
               IN /\ gridRecognize(R, hands'[Slot + 1], Slot).gesture
                        = [type |-> "NONE", confidence |-> 0]
                  /\ recognize(R, hands'[Slot + 1], Slot).gesture
                        = [type |-> "NONE", confidence |-> 0]
                  /\ gesture'[Slot] = "NONE"
                  /\ UNCHANGED <<gestureHistory, prevGestures, cellObjects,
                                 heldObjects, flipped, startup>>
                  /\ moves'[Len(moves')].kind = "none"]_vars
    /\ [][(FollowStep /\ \A i \in DOMAIN hands : hands[i].count < LANDMARK_COUNT)
            => UNCHANGED <<gestureHistory, prevGestures, cellObjects, startup>>]_vars

\* A malformed hand with closed fingers was processed over an occupied cell
\* while the slot's history was full of FIST.
MalformedOverOccupied ==
    /\ pc = "follow"
    /\ Len(hands) = 1
    /\ hands[1].count < LANDMARK_COUNT
    /\ hands[1].fingers = FIST_FINGERS
    /\ 0 \in DOMAIN gestureHistory
    /\ gestureHistory[0] = <<"FIST", "FIST", "FIST">>
    /\ Occupied(getCellIndex(hands[1].palm[1], hands[1].palm[2]))
    /\ gesture[0] = "NONE"


\* A call of detectHands that ran the detector on a new frame.
Detected == tracker'.detected # Null

(* C23: the smoother history is per slot. After every detection in which a
   slot has no hand, that slot has no smoother history, also when the other
   slot has a hand; so a hand that returns to the slot in the next detection
   is returned as detected, unsmoothed. *)
HistoryClearedPerSlot ==
    \A h \in HandSlots :
      /\ (tracker.detected # Null /\ h >= Len(Val(tracker.detected)))
            => h \notin DOMAIN tracker.prevLandmarks
      /\ (tracker.detected # Null /\ tracker.before # Null
              /\ h >= Len(Val(tracker.before)) /\ h < Len(Val(tracker.detected)))
            => Val(tracker.returned)[h + 1].landmarks = Val(tracker.detected)[h + 1]

(* C24: the smoother recurrence. In every detection, a hand in a slot without
   history is returned unchanged; otherwise every coordinate of the output is
   prev * 0.2 + raw * 0.8 (to within the unit of the coordinates), where prev
   is the output returned for that slot the last time, not the raw input of
   that time; in both cases the output is the slot's new history. *)
SmootherRecurrence ==
    [][Detected =>
         \A h \in 0 .. (Len(Val(tracker'.detected)) - 1) :
           LET raw == Val(tracker'.detected)[h + 1]
               out == Val(tracker'.returned)[h + 1].landmarks
           IN /\ tracker'.prevLandmarks[h] = out
              /\ h \notin DOMAIN tracker.prevLandmarks => out = raw
              /\ h \in DOMAIN tracker.prevLandmarks =>
                   /\ tracker.prevLandmarks[h] = tracker.outputs[h]
                   /\ \A idx \in DOMAIN raw : \A k \in DOMAIN raw[idx] :
                        LET exact == tracker.outputs[h][idx][k] * 2 + raw[idx][k] * 8
                        IN out[idx][k] * 10 <= exact /\ exact < out[idx][k] * 10 + 10]_vars

\* The hand in slot 0 was smoothed against an output that was itself smoothed:
\* what is returned is neither the raw hand nor the raw hand smoothed against
\* the raw hand of the detection before.
SmoothedTwice ==
    /\ tracker.detected # Null /\ Len(Val(tracker.detected)) >= 1
    /\ tracker.before # Null /\ Len(Val(tracker.before)) >= 1
    /\ LET raw == Val(tracker.detected)[1]
           out == Val(tracker.returned)[1].landmarks
       IN /\ out # raw
          /\ out # [idx \in DOMAIN raw |->
                      smoothLandmark(Val(tracker.before)[1][idx], raw[idx])]


\* A rendered frame of the 3D scene, and a run of predictWebcam.
SceneFrameStep == scene'.frames = scene.frames + 1
SceneDetectStep == scene'.detections = scene.detections + 1
\* What the cube's frame callback reads from handDataRef: the pinch state and
\* the pinch point that the first hand published in its latest frame callback.
HandPinching == scene.handData # Null /\ Val(scene.handData).isPinching
HandNearCube ==
    /\ scene.handData # Null
    /\ lengthSq(subVectors(Val(scene.handData).position, scene.cube))
          < INTERACTION_RADIUS * INTERACTION_RADIUS

(* C25: the cube. The cube becomes grabbed only in a frame in which it is not
   grabbed and the first hand is pinching (as published in handDataRef) with
   its pinch point closer than INTERACTION_RADIUS to the cube; a pinch outside
   the radius does not grab; a grabbed cube stays grabbed while the hand
   pinches and is released in the first frame in which it does not; while the
   cube is not grabbed its position does not change, by a frame or by a
   detection. *)
CubeGrabRelease ==
    /\ [][SceneFrameStep =>
            /\ (~scene.isGrabbing /\ scene'.isGrabbing) => (HandPinching /\ HandNearCube)
            /\ (~scene.isGrabbing /\ HandPinching /\ ~HandNearCube) => ~scene'.isGrabbing
            /\ (scene.isGrabbing /\ HandPinching) => scene'.isGrabbing
            /\ (scene.isGrabbing /\ ~HandPinching) => ~scene'.isGrabbing
            /\ ~scene.isGrabbing => scene'.cube = scene.cube]_vars
    /\ [][SceneDetectStep =>
            /\ scene'.isGrabbing = scene.isGrabbing
            /\ scene'.cube = scene.cube]_vars

\* The cube was grabbed and carried away from its first position, and then
\* released there.
CubeCarriedAndReleased ==
    /\ scene.last = "frame"
    /\ ~scene.isGrabbing
    /\ scene.cube # <<0, 0, 0>>

(* C26: pinch hysteresis of the 3D variant. In every frame, for every hand
   shown, the pinch state turns on only if the thumb-tip/index-tip distance is
   below PINCH_START_THRESHOLD, turns off only if it is above
   PINCH_END_THRESHOLD, and is unchanged if the distance lies in the closed
   band between the two; a detection does not change the pinch state of a
   hand that stays shown. *)
PinchBand ==
    /\ [][SceneFrameStep =>
            \A h \in DOMAIN scene.isPinching :
              LET d == Val(scene.handsResult)[h + 1].pinchDistance
                  was == scene.isPinching[h]
                  now == scene'.isPinching[h]
              IN /\ (~was /\ now) => d < PINCH_START_THRESHOLD
                 /\ (was /\ ~now) => d > PINCH_END_THRESHOLD
                 /\ (d >= PINCH_START_THRESHOLD /\ d <= PINCH_END_THRESHOLD) => now = was
                 /\ (~was /\ d < PINCH_START_THRESHOLD) => now
                 /\ (was /\ d > PINCH_END_THRESHOLD) => ~now]_vars
    /\ [][SceneDetectStep =>
            \A h \in DOMAIN scene.isPinching \cap DOMAIN scene'.isPinching :
              scene'.isPinching[h] = scene.isPinching[h]]_vars

\* A pinch was kept through a frame whose distance is exactly the end threshold.
PinchKeptOnEndThreshold ==
    /\ scene.last = "frame"
    /\ 0 \in DOMAIN scene.isPinching
    /\ scene.isPinching[0]
    /\ Val(scene.handsResult)[1].pinchDistance = PINCH_END_THRESHOLD

(* C27: no-hand frames vacate every slot. After a detection that reports no
   hand, and until a detection reports a hand again, the 3D scene shows no
   hand, handDataRef is empty and no pinch state is active. *)
NoHandVacatesScene ==
    scene.detected = 0 =>
        /\ scene.handsResult = Null \/ Len(Val(scene.handsResult)) = 0
        /\ scene.handData = Null
        /\ \A h \in DOMAIN scene.isPinching : ~scene.isPinching[h]


\* The protocol state is one of the six steps.
InStep == stepIndex(protocol.protocolState) > 0
Terminal == protocol.protocolState \in {"PhaseDone", "PhaseFailed"}
ExpectedMove == protocolSteps[stepIndex(protocol.protocolState)]

(* C28: protocol violation. While the experiment mode is on and the state is
   neither PhaseDone nor PhaseFailed, a drop into a cell that is not the
   current step's target, or of an object whose initialCell is not the current
   step's first cell, has set the state to PhaseFailed when the drop is made;
   a drop that matches both leaves the state out of PhaseFailed. *)
ViolationFails ==
    [][(protocol'.drop # Null /\ protocol.experimentMode /\ InStep)
         => LET drop == Val(protocol'.drop)
                matches == /\ drop.to = ExpectedMove.to
                           /\ initialCell(drop.element) = ExpectedMove.from
            IN /\ ~matches => /\ drop.judged = "PhaseFailed"
                              /\ protocol'.protocolState = "PhaseFailed"
               /\ matches => /\ drop.judged = protocol.protocolState
                             /\ protocol'.protocolState # "PhaseFailed"]_vars

\* In step 2 the object created in cell 6 was dropped into the step's target
\* cell 4: the right cell, the wrong object.
WrongObjectDropped ==
    /\ protocol.drop # Null
    /\ Val(protocol.drop).during = "Phase1_Step2"
    /\ Val(protocol.drop).to = 4
    /\ initialCell(Val(protocol.drop).element) = 6
    /\ protocol.protocolState = "PhaseFailed"

(* C29: terminal states. Once the state is PhaseFailed or PhaseDone, no frame
   changes it, whatever is grabbed and dropped. *)
TerminalStays ==
    [][Terminal => protocol'.protocolState = protocol.protocolState]_vars

\* After the protocol failed, the object created in cell 6 was dropped into
\* cell 3, which would complete the first step.
DropAfterFailure ==
    /\ protocol.protocolState = "PhaseFailed"
    /\ protocol.drop # Null
    /\ Val(protocol.drop).to = 3
    /\ initialCell(Val(protocol.drop).element) = 6
    /\ 3 \in DOMAIN cellObjects /\ cellObjects[3] = <<1>>
    /\ 7 \in DOMAIN cellObjects /\ 8 \in DOMAIN cellObjects

(* C30: step advance. A frame advances the protocol by exactly one step when
   the state is a step and the object created in the step's first cell is in
   the step's target cell at the end of the frame, and leaves a step alone
   otherwise (unless a drop fails the protocol); the steps are passed in
   order, never backwards. In particular step 'move 6 to 3' is passed when the
   object with initialCell 6 is in cell 3. *)
StepAdvance ==
    [][InStep
         => LET arrived == \E el \in DOMAIN protocolCells :
                              /\ initialCell(el) = ExpectedMove.from
                              /\ ExpectedMove.to \in DOMAIN cellObjects'
                              /\ \E i \in DOMAIN cellObjects'[ExpectedMove.to] :
                                   cellObjects'[ExpectedMove.to][i] = el
                failed == protocol'.protocolState = "PhaseFailed"
            IN /\ (arrived /\ ~failed)
                    => protocol'.protocolState
                         = nextProtocolState(protocol.protocolState)
               /\ (~arrived /\ ~failed)
                    => protocol'.protocolState = protocol.protocolState
               /\ failed \/ stepIndex(protocol'.protocolState)
                               \in {stepIndex(protocol.protocolState),
                                    stepIndex(protocol.protocolState) + 1}]_vars

\* The first step has been passed and the object created in cell 6 was then
\* grabbed from cell 3 again: the protocol is still in the second step.
PassedStepNotReentered ==
    /\ protocol.protocolState = "Phase1_Step2"
    /\ 0 \in DOMAIN heldObjects
    /\ initialCell(heldObjects[0].element) = 6
    /\ 3 \notin DOMAIN cellObjects

-----------------------------------------------------------------------------
(* Properties of the tick *)

(* C31 as stated: one history entry per tick. At every tick boundary, the
   hysteresis history of a slot that was reported in each of the last three
   ticks consists of the raw types of these three ticks, one entry per tick,
   whether the slot was EMPTY or HOLDING in them. *)
OneEntryPerTick ==
    pc = "idle" =>
        \A h \in HandSlots :
            Len(rawLog[h]) >= historySize =>
                /\ h \in DOMAIN gestureHistory
                /\ gestureHistory[h] = LastN(rawLog[h], historySize)

(* C32 as stated: a re-appearing hand starts afresh. The type emitted for
   the first observation of a slot after a tick in which the slot was absent
   (or for its first observation ever) is the raw type of that observation; in
   particular a re-appearing hand whose raw type is OPEN does not grab. *)
ReappearanceIsFresh ==
    [][(ProcStep /\ rawLog[Slot] = <<>>) =>
        /\ gesture'[Slot] = rawType(hands'[Slot + 1])
        /\ rawType(hands'[Slot + 1]) = "OPEN" => ~Grabbed]_vars

\* At the end of forEach, for a tick with two hands: the cell under the palm
\* of the hand in a slot, and whether the slot began the tick EMPTY.
PalmCellOf(h) == getCellIndex(hands[h + 1].palm[1], hands[h + 1].palm[2])
BeganEmpty(h) ==
    moves[h + 1].kind = "grab" \/ (moves[h + 1].kind = "none" /\ h \notin DOMAIN heldObjects)
TwoHandTickEnds == FollowStep /\ Len(moves) = numHands

(* C33 as stated: same-tick hand-over. If in one tick slot 0 drops its
   entity into cell c while slot 1 is EMPTY, emits FIST and has its palm over
   c, then at the end of the tick slot 1 holds that entity; with the roles of
   the slots exchanged the entity rests in cell c at the end of the tick and
   slot 0 stays EMPTY. *)
HandOverAsStated ==
    [][TwoHandTickEnds =>
        /\ (moves[1].kind = "drop" /\ BeganEmpty(1) /\ gesture[1] = "FIST"
               /\ PalmCellOf(1) = PalmCellOf(0)) =>
                /\ 1 \in DOMAIN heldObjects'
                /\ heldObjects'[1].element = moves[1].element
        /\ (moves[2].kind = "drop" /\ BeganEmpty(0) /\ gesture[0] = "FIST"
               /\ PalmCellOf(0) = PalmCellOf(1)) =>
                /\ PlacesIn(cellObjects', moves[2].element)
                      = {<<PalmCellOf(1), Len(cellObjects'[PalmCellOf(1)])>>}
                /\ 0 \notin DOMAIN heldObjects']_vars

(* C33 amended: same-tick hand-over. If slot 0 drops its entity into cell c
   while slot 1 is EMPTY, emits FIST and has its palm over c, then at the end
   of the tick slot 1 holds that entity and no cell does. With the roles
   exchanged the entity rests on top of cell c at the end of the tick; slot 0
   stays EMPTY when c held nothing as slot 0 was processed, and otherwise it
   holds the entity it took from the top of c before slot 1 dropped. *)
HandOver ==
    [][TwoHandTickEnds =>
        /\ (moves[1].kind = "drop" /\ BeganEmpty(1) /\ gesture[1] = "FIST"
               /\ PalmCellOf(1) = PalmCellOf(0)) =>
                /\ 1 \in DOMAIN heldObjects'
                /\ heldObjects'[1].element = moves[1].element
                /\ PlacesIn(cellObjects', moves[1].element) = {}
        /\ (moves[2].kind = "drop" /\ BeganEmpty(0) /\ gesture[0] = "FIST"
               /\ PalmCellOf(0) = PalmCellOf(1)) =>
                /\ PlacesIn(cellObjects', moves[2].element)
                      = {<<PalmCellOf(1), Len(cellObjects'[PalmCellOf(1)])>>}
                /\ IF moves[1].kind = "grab"
                   THEN /\ 0 \in DOMAIN heldObjects'
                        /\ heldObjects'[0].element # moves[2].element
                        /\ heldObjects'[0].fromCellIndex = PalmCellOf(1)
                        /\ PlacesIn(cellObjects', heldObjects'[0].element) = {}
                   ELSE 0 \notin DOMAIN heldObjects']_vars

\* Slot 1 has just dropped its entity into the cell from which slot 0, EMPTY
\* and emitting FIST, took another entity earlier in the same tick.
DropOntoCellJustEmptied ==
    /\ pc = "follow"
    /\ Len(moves) = numHands
    /\ moves[1].kind = "grab"
    /\ moves[2].kind = "drop"
    /\ gesture[0] = "FIST"
    /\ PalmCellOf(0) = PalmCellOf(1)
    /\ cellObjects[PalmCellOf(1)] = <<moves[2].element>>

(* C34: flip state persists. The displayed flip state of an entity changes
   only while a slot holds it; a drop leaves it as it was; a grab records it
   as grabWasBack and does not change it, and at the end of the tick of the
   grab the displayed state still equals grabWasBack. *)
FlipPersists ==
    [][/\ \A e \in Elements :
            flipped'[e] # flipped[e] =>
                /\ HoldersIn(heldObjects, e) # {}
                /\ HoldersIn(heldObjects', e) = HoldersIn(heldObjects, e)
       /\ (ProcStep /\ Dropped) =>
            flipped'[heldObjects[Slot].element] = flipped[heldObjects[Slot].element]
       /\ (ProcStep /\ Grabbed) =>
            /\ heldObjects'[Slot].grabWasBack = flipped[heldObjects'[Slot].element]
            /\ heldObjects'[Slot].isBack = flipped[heldObjects'[Slot].element]
            /\ flipped' = flipped
       /\ FollowStep =>
            \A i \in DOMAIN moves :
                moves[i].kind = "grab" =>
                    flipped'[moves[i].element] = heldObjects'[i - 1].grabWasBack]_vars

\* Slot 1 has just grabbed an entity that lies flipped in a cell, while slot 0
\* holds the other entity unflipped.
GrabbedWhileFlipped ==
    /\ pc = "follow"
    /\ Len(moves) = numHands
    /\ moves[2].kind = "grab"
    /\ heldObjects[1].grabWasBack
    /\ flipped[heldObjects[1].element]
    /\ 0 \in DOMAIN heldObjects
    /\ ~flipped[heldObjects[0].element]

-----------------------------------------------------------------------------
(* Further properties of the particle field *)

(* C35 as stated: gathered means at the targets. In every reachable state
   whose mode is GATHERED every particle is within epsilon of its current
   target, also after updateGatherCenter calls that move the centre. *)
GatheredAtTargets ==
    swarm.state = "gathered" =>
        \A i \in Particles :
            Within(swarm.positions[i], swarm.targetPositions[i], reachedDistance)

(* C36: swarm liveness. After gather(c), with update() called in every frame
   and the centre left where it is, the mode does not stay GATHERING for ever:
   it becomes GATHERED (unless scatter() makes it SCATTERED first); and a
   GATHERED field stays GATHERED until scatter() or gather() is called. *)
GatherCompletes ==
    /\ (swarm.state = "gathering") ~> (swarm.state \in {"gathered", "scattered"})
    /\ [][(swarm.state = "gathered" /\ swarm'.state # "gathered")
              => swarmTrace'.last \in {"scatter", "gather"}]_vars

\* The field has become gathered by update() alone after gather() and an
\* updateGatherCenter() that kept the centre.
GatheredAfterKeptCenter ==
    /\ swarm.state = "gathered"
    /\ swarmTrace.last = "update"
    /\ swarmTrace.lastCall = "updateGatherCenter"
    /\ swarmTrace.calls = 2

(* C37: scatter() in the scattered mode changes nothing. A frame without a
   hand that begins SCATTERED leaves targets, mode and centre as they were;
   one that begins GATHERING or GATHERED ends SCATTERED with every target at
   the particle's home position plus the jitter drawn in that frame. *)
ScatterOnlyOnLeaving ==
    [][(swarmTrace'.last = "animate" /\ swarmTrace'.input = <<>>) =>
        IF swarm.state = "scattered"
        THEN /\ swarm'.targetPositions = swarm.targetPositions
             /\ swarm'.state = "scattered"
             /\ swarm'.targetCenter = swarm.targetCenter
        ELSE /\ swarm'.state = "scattered"
             /\ swarm'.targetCenter = swarm.targetCenter
             /\ \E jitter \in Jitters :
                   swarm'.targetPositions =
                       [i \in Particles |->
                           addVectors(swarm.originalScatterPositions[i], jitter[i])]]_vars

\* A frame without a hand has just ended in a field that was scattered
\* already and keeps the jittered targets of an earlier scatter().
StillScatteredWithoutHands ==
    /\ swarmTrace.last = "animate"
    /\ swarmTrace.input = <<>>
    /\ swarmTrace.from = "scattered"
    /\ swarm.state = "scattered"
    /\ swarm.targetPositions # swarm.originalScatterPositions

-----------------------------------------------------------------------------
(* Further properties of the protocol *)

(* C38 as stated: the protocol can be completed. In experiment mode every
   prescribed move, made in its step as one grab from the step's first cell
   and one drop into the step's target cell, advances the tracker to the next
   step (to PhaseDone after the last one) and does not fail it. *)
PrescribedMovesComplete ==
    [][(protocol'.drop # Null /\ protocol.experimentMode /\ InStep
           /\ 0 \in DOMAIN heldObjects
           /\ heldObjects[0].fromCellIndex = ExpectedMove.from
           /\ Val(protocol'.drop).to = ExpectedMove.to) =>
            protocol'.protocolState = nextProtocolState(protocol.protocolState)]_vars

-----------------------------------------------------------------------------
(* Properties of the start-up *)

(* C39 as stated: start-up happens once. However often start is triggered,
   at most one tick loop runs, the initial entities are created exactly once
   (one per initial cell), and every entity created is in the cell store or
   held by a slot. *)
StartsOnce ==
    /\ startup.loops <= 1
    /\ startup.made <= Len(InitialCells)
    /\ \A e \in 1 .. startup.made :
          PlacesIn(cellObjects, e) # {} \/ HoldersIn(heldObjects, e) # {}
====
